---- MODULE Spec2Model ----
(***************************************************************************)
(* A model of the task_master API: the tasks table, the task CRUD          *)
(* endpoints (app/api/v1/tasks.py), and the natural-language assistant     *)
(* (app/services/llama_ai_service.py behind app/api/v1/ai.py): intent      *)
(* classification, the proposer handlers and the executor methods.         *)
(*                                                                         *)
(* Python values are modelled as follows.  A dict is a function whose      *)
(* DOMAIN is its key set (a missing key is a KeyError).  None / SQL NULL   *)
(* is NULL for ids and timestamps and the string "None" for text.  A       *)
(* timestamp written by datetime.now() is the non-null value NOW, which is  *)
(* also the day on which the endpoints serve their requests.  A            *)
(* float confidence c is the integer 10*c.  A str is a TLA+ string, taken  *)
(* apart with Len and SubSeq.                                              *)
(***************************************************************************)
EXTENDS Integers, Sequences, FiniteSets, TLC

VARIABLES
    tasks,      \* the tasks table: task id -> row, DOMAIN = ids of the rows
    next_id,    \* the next value of the tasks.id sequence
    pending,    \* the proposal the client last received with confirmation_needed
    last        \* the last request served and what it returned

vars == <<tasks, next_id, pending, last>>

-----------------------------------------------------------------------------
(* Bounds and fixed data *)

MaxTaskId == 3

NULL == 0

NOW == 1

UserIds == {1, 2}

\* The users table (id -> username, full_name); it is not changed by any
\* operation modelled here.
users == [u \in UserIds |->
            IF u = 1 THEN [id |-> 1, username |-> "alice", full_name |-> "None"]
                     ELSE [id |-> 2, username |-> "bob", full_name |-> "Bob Stone"]]

EmptyDict == [k \in {} |-> NULL]

TaskStatusValues == {"todo", "in_progress", "in_review", "completed"}

TaskPriorityValues == {"low", "medium", "high", "urgent"}

ActionKinds == {"create_task", "edit_task", "move_task", "delete_task",
                "assign_task", "query_tasks", "bulk_operation",
                "status_request", "help", "general"}

-----------------------------------------------------------------------------
(* str operations *)

LowerChar(c) ==
    CASE c = "A" -> "a" [] c = "B" -> "b" [] c = "C" -> "c" [] c = "D" -> "d"
      [] c = "E" -> "e" [] c = "F" -> "f" [] c = "G" -> "g" [] c = "H" -> "h"
      [] c = "I" -> "i" [] c = "J" -> "j" [] c = "K" -> "k" [] c = "L" -> "l"
      [] c = "M" -> "m" [] c = "N" -> "n" [] c = "O" -> "o" [] c = "P" -> "p"
      [] c = "Q" -> "q" [] c = "R" -> "r" [] c = "S" -> "s" [] c = "T" -> "t"
      [] c = "U" -> "u" [] c = "V" -> "v" [] c = "W" -> "w" [] c = "X" -> "x"
      [] c = "Y" -> "y" [] c = "Z" -> "z" [] OTHER -> c

RECURSIVE Lower(_)
Lower(s) ==
    IF Len(s) = 0 THEN ""
    ELSE LowerChar(SubSeq(s, 1, 1)) \o Lower(SubSeq(s, 2, Len(s)))

\* Python's  k in s  for two strs
Contains(s, k) ==
    \E i \in 1..(Len(s) - Len(k) + 1) : SubSeq(s, i, i + Len(k) - 1) = k

\* any(word in s for word in words), words a list
AnyIn(words, s) == \E j \in 1..Len(words) : Contains(s, words[j])

IsDigit(c) == c \in {"0", "1", "2", "3", "4", "5", "6", "7", "8", "9"}

DigitVal(c) ==
    CASE c = "0" -> 0 [] c = "1" -> 1 [] c = "2" -> 2 [] c = "3" -> 3
      [] c = "4" -> 4 [] c = "5" -> 5 [] c = "6" -> 6 [] c = "7" -> 7
      [] c = "8" -> 8 [] c = "9" -> 9

IsSpace(c) == c \in {" ", "\t", "\n"}

\* the end of the longest run of digits starting at position i (i - 1 if none)
RECURSIVE DigitsEnd(_, _)
DigitsEnd(s, i) ==
    IF i <= Len(s) /\ IsDigit(SubSeq(s, i, i)) THEN DigitsEnd(s, i + 1) ELSE i - 1

RECURSIVE SpacesEnd(_, _)
SpacesEnd(s, i) ==
    IF i <= Len(s) /\ IsSpace(SubSeq(s, i, i)) THEN SpacesEnd(s, i + 1) ELSE i - 1

\* int() of a str of digits
RECURSIVE ParseInt(_)
ParseInt(s) ==
    IF Len(s) = 0 THEN 0
    ELSE 10 * ParseInt(SubSeq(s, 1, Len(s) - 1)) + DigitVal(SubSeq(s, Len(s), Len(s)))

RECURSIVE LStrip(_)
LStrip(s) ==
    IF Len(s) > 0 /\ IsSpace(SubSeq(s, 1, 1)) THEN LStrip(SubSeq(s, 2, Len(s))) ELSE s

RECURSIVE RStrip(_)
RStrip(s) ==
    IF Len(s) > 0 /\ IsSpace(SubSeq(s, Len(s), Len(s)))
    THEN RStrip(SubSeq(s, 1, Len(s) - 1)) ELSE s

\* str.strip()
Strip(s) == LStrip(RStrip(s))

\* re.search(r'\{.*\}', s, re.DOTALL): the span from the first "{" to the last
\* "}" after it; "" when there is none (a match is never empty)
JsonSpan(s) ==
    LET opens == {i \in 1..Len(s) : SubSeq(s, i, i) = "{"}
    IN  IF opens = {} THEN ""
        ELSE LET first == CHOOSE i \in opens : \A k \in opens : i <= k
                 closes == {j \in (first + 1)..Len(s) : SubSeq(s, j, j) = "}"}
             IN  IF closes = {} THEN ""
                 ELSE SubSeq(s, first, CHOOSE j \in closes : \A k \in closes : k <= j)

-----------------------------------------------------------------------------
(* Results of calls: a returned value or a raised exception *)

Ret(v) == [raised |-> FALSE, value |-> v]

Raise(e) == [raised |-> TRUE, exc |-> e]

-----------------------------------------------------------------------------
(* The text-generation service.  What the HTTP call yields is an input:      *)
(* [status |-> "ok", response |-> text] for a 2xx answer carrying the text,  *)
(* any other status for a network error, a timeout or a non-2xx answer.      *)

ReplyBulkDelete ==
    "Sure: {\"action\": \"bulk_operation\", \"confidence\": 0.9, \"data\": {\"operation\": \"delete\"}} "

ReplyBulkComplete ==
    "{\"action\": \"bulk_operation\", \"confidence\": 0.8, \"data\": {\"operation\": \"complete\"}}"

ReplyBulkNoOperation == "{\"action\": \"bulk_operation\", \"confidence\": 0.8}"

ReplyEdit == "{\"action\": \"edit_task\", \"confidence\": 0.9, \"data\": {\"task_id\": 1}}"

ReplyDelete == "{\"action\": \"delete_task\", \"confidence\": 0.9, \"data\": {}}"

ReplyStatus == "{\"action\": \"status_request\", \"confidence\": 1.0}"

ReplyCreate == "{\"action\": \"create_task\", \"confidence\": 0.9}"

ReplyNoAction == "{\"confidence\": 0.9, \"reasoning\": \"unclear\"}"

ReplyUnknownAction == "{\"action\": \"dance\", \"confidence\": 7}"

ReplyNoBraces == "I am not sure what you mean."

ReplyNotJson == "{action: delete_task}"

ReplyTwoObjects == "{\"action\": \"help\"} or {\"action\": \"general\"}"

ReplyTask == "JSON: {\"title\": \"Fix login\", \"priority\": \"high\", \"status\": \"completed\"}"

ReplyTaskBare == "{\"priority\": \"soon\"}"

\* json.loads on the brace spans of the replies above; every other text the
\* model hands it is not JSON (json.JSONDecodeError)
JsonLoads(s) ==
    CASE s = Strip(SubSeq(ReplyBulkDelete, 7, Len(ReplyBulkDelete))) ->
            Ret([action |-> "bulk_operation", confidence |-> 9,
                 data |-> [operation |-> "delete"]])
      [] s = ReplyBulkComplete ->
            Ret([action |-> "bulk_operation", confidence |-> 8,
                 data |-> [operation |-> "complete"]])
      [] s = ReplyBulkNoOperation ->
            Ret([action |-> "bulk_operation", confidence |-> 8])
      [] s = ReplyEdit ->
            Ret([action |-> "edit_task", confidence |-> 9, data |-> [task_id |-> 1]])
      [] s = ReplyDelete ->
            Ret([action |-> "delete_task", confidence |-> 9, data |-> EmptyDict])
      [] s = ReplyStatus -> Ret([action |-> "status_request", confidence |-> 10])
      [] s = ReplyCreate -> Ret([action |-> "create_task", confidence |-> 9])
      [] s = ReplyNoAction -> Ret([confidence |-> 9, reasoning |-> "unclear"])
      [] s = ReplyUnknownAction -> Ret([action |-> "dance", confidence |-> 70])
      [] s = SubSeq(ReplyTask, 7, Len(ReplyTask)) ->
            Ret([title |-> "Fix login", priority |-> "high", status |-> "completed"])
      [] s = ReplyTaskBare -> Ret([priority |-> "soon"])
      [] OTHER -> Raise("JSONDecodeError")

OllamaFailures == {[status |-> "timeout"], [status |-> "http500"]}

Ok(text) == [status |-> "ok", response |-> text]

_call_ollama(reply) ==
    IF reply.status = "ok" THEN Ret(Strip(reply.response))
    ELSE Raise("AI service unavailable")

\* dict.get(key, default)
Get(d, k, default) == IF k \in DOMAIN d THEN d[k] ELSE default

-----------------------------------------------------------------------------
(* Intent classification *)

\* _fallback_classify looking for the help keywords before all others
_fallback_classify_help_first(message) ==
    LET message_lower == Lower(message)
    IN  IF AnyIn(<<"help", "what can you do">>, message_lower)
          THEN [action |-> "help", confidence |-> 8, data |-> EmptyDict]
        ELSE IF AnyIn(<<"create", "add", "new task", "make">>, message_lower)
          THEN [action |-> "create_task", confidence |-> 7, data |-> EmptyDict]
        ELSE IF AnyIn(<<"edit", "change", "update", "modify">>, message_lower)
          THEN [action |-> "edit_task", confidence |-> 6, data |-> EmptyDict]
        ELSE IF AnyIn(<<"delete", "remove", "cancel">>, message_lower)
          THEN [action |-> "delete_task", confidence |-> 6, data |-> EmptyDict]
        ELSE IF AnyIn(<<"move", "transfer", "shift">>, message_lower)
          THEN [action |-> "move_task", confidence |-> 6, data |-> EmptyDict]
        ELSE IF AnyIn(<<"assign", "give to">>, message_lower)
          THEN [action |-> "assign_task", confidence |-> 6, data |-> EmptyDict]
        ELSE IF AnyIn(<<"find", "search", "show", "list">>, message_lower)
          THEN [action |-> "query_tasks", confidence |-> 6, data |-> EmptyDict]
        ELSE IF AnyIn(<<"status", "progress", "summary">>, message_lower)
          THEN [action |-> "status_request", confidence |-> 7, data |-> EmptyDict]
        ELSE [action |-> "general", confidence |-> 5, data |-> EmptyDict]

_fallback_classify(message) ==
    LET message_lower == Lower(message)
    IN  IF AnyIn(<<"create", "add", "new task", "make">>, message_lower)
          THEN [action |-> "create_task", confidence |-> 7, data |-> EmptyDict]
        ELSE IF AnyIn(<<"edit", "change", "update", "modify">>, message_lower)
          THEN [action |-> "edit_task", confidence |-> 6, data |-> EmptyDict]
        ELSE IF AnyIn(<<"delete", "remove", "cancel">>, message_lower)
          THEN [action |-> "delete_task", confidence |-> 6, data |-> EmptyDict]
        ELSE IF AnyIn(<<"move", "transfer", "shift">>, message_lower)
          THEN [action |-> "move_task", confidence |-> 6, data |-> EmptyDict]
        ELSE IF AnyIn(<<"assign", "give to">>, message_lower)
          THEN [action |-> "assign_task", confidence |-> 6, data |-> EmptyDict]
        ELSE IF AnyIn(<<"find", "search", "show", "list">>, message_lower)
          THEN [action |-> "query_tasks", confidence |-> 6, data |-> EmptyDict]
        ELSE IF AnyIn(<<"status", "progress", "summary">>, message_lower)
          THEN [action |-> "status_request", confidence |-> 7, data |-> EmptyDict]
        ELSE IF AnyIn(<<"help", "what can you do">>, message_lower)
          THEN [action |-> "help", confidence |-> 8, data |-> EmptyDict]
        ELSE [action |-> "general", confidence |-> 5, data |-> EmptyDict]

\* _classify_intent answering every unusable reply with the general intent
\* instead of calling the keyword classifier
_classify_intent_general(message, user_id, db, reply) ==
    LET response == _call_ollama(reply)
        general == [action |-> "general", confidence |-> 5, data |-> EmptyDict]
    IN  IF response.raised THEN general
        ELSE IF JsonSpan(response.value) = "" THEN general
        ELSE IF JsonLoads(JsonSpan(response.value)).raised THEN general
        ELSE JsonLoads(JsonSpan(response.value)).value

\* The query of the recent tasks only feeds the prompt; the reply is an input.
_classify_intent(message, user_id, db, reply) ==
    LET response == _call_ollama(reply)
    IN  IF response.raised THEN _fallback_classify(message)
        ELSE LET json_str == JsonSpan(response.value)
             IN  IF json_str = "" THEN _fallback_classify(message)
                 ELSE LET result == JsonLoads(json_str)
                      IN  IF result.raised THEN _fallback_classify(message)
                          ELSE result.value

-----------------------------------------------------------------------------
(* Queries on the tasks table *)

\* the ids in s in ascending order, the order in which an unordered query is
\* taken to return rows
RECURSIVE SortedIds(_)
SortedIds(s) ==
    IF s = {} THEN <<>>
    ELSE LET m == CHOOSE i \in s : \A k \in s : i <= k
         IN  <<m>> \o SortedIds(s \ {m})

\* OwnedTask without the owner filter
AnyTask(db, task_id, user_id) ==
    IF task_id \in DOMAIN db THEN task_id ELSE NULL

\* db.query(Task).filter(Task.id == task_id, Task.owner_id == user_id).first():
\* the id of the row, NULL when there is none
OwnedTask(db, task_id, user_id) ==
    IF task_id \in DOMAIN db /\ db[task_id].owner_id = user_id THEN task_id ELSE NULL

\* OwnedIds without the owner filter
AllIds(db, user_id) == DOMAIN db

\* the ids of db.query(Task).filter(Task.owner_id == user_id)
OwnedIds(db, user_id) == {i \in DOMAIN db : db[i].owner_id = user_id}

\* column ILIKE '%keyword%'; NULL text never matches
ILike(text, keyword) == text # "None" /\ Contains(Lower(text), Lower(keyword))

Take(seq, n) == SubSeq(seq, 1, IF Len(seq) < n THEN Len(seq) ELSE n)

-----------------------------------------------------------------------------
(* Parameter extraction from the message *)

StopWords == {"the", "a", "an", "to", "from", "in", "on", "at", "for", "with",
              "by", "and", "or", "but", "task", "change", "update", "move",
              "edit", "delete", "priority", "status"}

\* str.split(): the maximal runs of non-whitespace characters
RECURSIVE Split(_)
Split(s) ==
    LET t == LStrip(s)
    IN  IF Len(t) = 0 THEN <<>>
        ELSE LET ends == {i \in 1..Len(t) : i = Len(t) \/ IsSpace(SubSeq(t, i + 1, i + 1))}
                 e == CHOOSE i \in ends : \A k \in ends : i <= k
             IN  <<SubSeq(t, 1, e)>> \o Split(SubSeq(t, e + 1, Len(t)))

IsPunct(c) == c \in {".", ",", "!", "?", ";", ":"}

\* word.strip('.,!?;:')
RECURSIVE StripPunct(_)
StripPunct(w) ==
    IF Len(w) > 0 /\ IsPunct(SubSeq(w, 1, 1)) THEN StripPunct(SubSeq(w, 2, Len(w)))
    ELSE IF Len(w) > 0 /\ IsPunct(SubSeq(w, Len(w), Len(w)))
         THEN StripPunct(SubSeq(w, 1, Len(w) - 1))
    ELSE w

RECURSIVE KeepKeywords(_)
KeepKeywords(words) ==
    IF Len(words) = 0 THEN <<>>
    ELSE LET word == Head(words)
             rest == KeepKeywords(Tail(words))
         IN  IF StripPunct(word) \notin StopWords /\ Len(word) > 2
             THEN <<StripPunct(word)>> \o rest ELSE rest

_extract_keywords_from_message(message) ==
    Take(KeepKeywords(Split(Lower(message))), 3)

\* re.search(r'#(\d+)|task\s+(\d+)', message, re.IGNORECASE): the digits of
\* the leftmost match, "" when nothing matches
IdMatchAt(s, i) ==
    IF SubSeq(s, i, i) = "#" /\ DigitsEnd(s, i + 1) >= i + 1
      THEN SubSeq(s, i + 1, DigitsEnd(s, i + 1))
    ELSE IF /\ i + 3 <= Len(s)
            /\ Lower(SubSeq(s, i, i + 3)) = "task"
            /\ SpacesEnd(s, i + 4) >= i + 4
            /\ DigitsEnd(s, SpacesEnd(s, i + 4) + 1) >= SpacesEnd(s, i + 4) + 1
      THEN SubSeq(s, SpacesEnd(s, i + 4) + 1, DigitsEnd(s, SpacesEnd(s, i + 4) + 1))
    ELSE ""

IdMatch(s) ==
    LET hits == {i \in 1..Len(s) : IdMatchAt(s, i) # ""}
    IN  IF hits = {} THEN ""
        ELSE IdMatchAt(s, CHOOSE i \in hits : \A k \in hits : i <= k)

\* the row with the greatest created_at, the first such in list order
MaxByCreatedAt(db, ids) ==
    LET best == {j \in 1..Len(ids) :
                    /\ \A k \in 1..Len(ids) : db[ids[k]].created_at <= db[ids[j]].created_at}
    IN  ids[CHOOSE j \in best : \A k \in best : j <= k]

\* _find_task_from_message going on to the keyword search when the id the
\* message names is no task of the caller
_find_task_from_message_fallthrough(message, user_id, db) ==
    LET id_match == IdMatch(message)
        keywords == _extract_keywords_from_message(message)
        found == {i \in OwnedIds(db, user_id) :
                    \A k \in 1..Len(keywords) :
                       \/ ILike(db[i].title, keywords[k])
                       \/ ILike(db[i].description, keywords[k])}
        tasks_found == Take(SortedIds(found), 5)
    IN  IF id_match # "" /\ OwnedTask(db, ParseInt(id_match), user_id) # NULL
        THEN OwnedTask(db, ParseInt(id_match), user_id)
        ELSE IF Len(keywords) = 0 THEN NULL
        ELSE IF Len(tasks_found) = 1 THEN tasks_found[1]
        ELSE IF Len(tasks_found) > 1 THEN MaxByCreatedAt(db, tasks_found)
        ELSE NULL

\* the caller's rows whose title or description contains every keyword
KeywordMatches(keywords, user_id, db) ==
    {i \in OwnedIds(db, user_id) :
        \A k \in 1..Len(keywords) :
           \/ ILike(db[i].title, keywords[k])
           \/ ILike(db[i].description, keywords[k])}

\* The sets of rows query.limit(5).all() may return for a query, without an
\* ORDER BY, that found rows match: all of them when they are at most 5.
Pages(found) ==
    IF Cardinality(found) <= 5 THEN {found}
    ELSE {page \in SUBSET found : Cardinality(page) = 5}

\* _find_task_from_message when the limited keyword query, if it runs at all,
\* returns the rows of page
_find_task_from_message_page(message, user_id, db, page) ==
    LET id_match == IdMatch(message)
    IN  IF id_match # "" THEN OwnedTask(db, ParseInt(id_match), user_id)
        ELSE LET keywords == _extract_keywords_from_message(message)
                 tasks_found == SortedIds(page)
             IN  IF Len(keywords) = 0 THEN NULL
                 ELSE IF Len(tasks_found) = 1 THEN tasks_found[1]
                 ELSE IF Len(tasks_found) > 1 THEN MaxByCreatedAt(db, tasks_found)
                 ELSE NULL

\* The id of the task the message refers to, NULL when none is found.  The
\* keyword query returns its rows in id order; with at most 5 matching rows,
\* as in every table but those of SpecKeyword, no other page exists.
_find_task_from_message(message, user_id, db) ==
    LET id_match == IdMatch(message)
    IN  IF id_match # "" THEN OwnedTask(db, ParseInt(id_match), user_id)
        ELSE LET keywords == _extract_keywords_from_message(message)
                 found == {i \in OwnedIds(db, user_id) :
                             \A k \in 1..Len(keywords) :
                                \/ ILike(db[i].title, keywords[k])
                                \/ ILike(db[i].description, keywords[k])}
                 tasks_found == Take(SortedIds(found), 5)
             IN  IF Len(keywords) = 0 THEN NULL
                 ELSE IF Len(tasks_found) = 1 THEN tasks_found[1]
                 ELSE IF Len(tasks_found) > 1 THEN MaxByCreatedAt(db, tasks_found)
                 ELSE NULL

\* FirstStatus going through the statuses in the order completed, in_review,
\* in_progress, todo
FirstStatusReversed(message_lower, in_progress_words, completed_words) ==
    IF AnyIn(completed_words, message_lower) THEN "completed"
    ELSE IF AnyIn(<<"in review", "review", "reviewing">>, message_lower) THEN "in_review"
    ELSE IF AnyIn(in_progress_words, message_lower) THEN "in_progress"
    ELSE IF AnyIn(<<"todo", "to do", "pending">>, message_lower) THEN "todo"
    ELSE "None"

\* The first status, in the order of the dict literal, one of whose keywords
\* occurs in the lowered message; "None" when there is none.
FirstStatus(message_lower, in_progress_words, completed_words) ==
    IF AnyIn(<<"todo", "to do", "pending">>, message_lower) THEN "todo"
    ELSE IF AnyIn(in_progress_words, message_lower) THEN "in_progress"
    ELSE IF AnyIn(<<"in review", "review", "reviewing">>, message_lower) THEN "in_review"
    ELSE IF AnyIn(completed_words, message_lower) THEN "completed"
    ELSE "None"

_extract_status_from_message(message) ==
    FirstStatus(Lower(message),
                <<"in progress", "progress", "working", "active">>,
                <<"completed", "done", "finished", "complete">>)

\* The first of low, medium, high, urgent occurring in the lowered message
FirstPriorityAscending(message_lower) ==
    IF Contains(message_lower, "low") THEN "low"
    ELSE IF Contains(message_lower, "medium") THEN "medium"
    ELSE IF Contains(message_lower, "high") THEN "high"
    ELSE IF Contains(message_lower, "urgent") THEN "urgent"
    ELSE "None"

\* The first of urgent, high, medium, low occurring in the lowered message
FirstPriority(message_lower) ==
    IF Contains(message_lower, "urgent") THEN "urgent"
    ELSE IF Contains(message_lower, "high") THEN "high"
    ELSE IF Contains(message_lower, "medium") THEN "medium"
    ELSE IF Contains(message_lower, "low") THEN "low"
    ELSE "None"

IsQuote(c) == c \in {"\"", "'"}

RECURSIVE NonQuoteEnd(_, _)
NonQuoteEnd(s, i) ==
    IF i <= Len(s) /\ ~IsQuote(SubSeq(s, i, i)) THEN NonQuoteEnd(s, i + 1) ELSE i - 1

\* The pattern  \s+["\']?([^"\']+)["\']?  anchored at position p: the group
\* captured, [ok |-> FALSE] when it does not match there.
TailCapture(s, p) ==
    LET w == SpacesEnd(s, p)
        r == w + 1
    IN  IF w < p THEN [ok |-> FALSE]
        ELSE IF r <= Len(s) /\ ~IsQuote(SubSeq(s, r, r))
          THEN [ok |-> TRUE, group |-> SubSeq(s, r, NonQuoteEnd(s, r))]
        ELSE IF r <= Len(s) /\ NonQuoteEnd(s, r + 1) >= r + 1
          THEN [ok |-> TRUE, group |-> SubSeq(s, r + 1, NonQuoteEnd(s, r + 1))]
        \* backtracking: \s+ gives back its last character to the group
        ELSE IF w > p THEN [ok |-> TRUE, group |-> SubSeq(s, w, w)]
        ELSE [ok |-> FALSE]

\* re.search(literal + tail pattern, s, re.IGNORECASE), leftmost match
CaptureAfter(s, literal) ==
    LET n == Len(literal)
        hits == {i \in 1..(Len(s) - n + 1) :
                    /\ Lower(SubSeq(s, i, i + n - 1)) = literal
                    /\ TailCapture(s, i + n).ok}
    IN  IF hits = {} THEN [ok |-> FALSE]
        ELSE TailCapture(s, (CHOOSE i \in hits : \A k \in hits : i <= k) + n)

\* re.search(r'description\s+to\s+["\']?([^"\']+)["\']?', ...)
DescriptionCapture(s) ==
    LET hits == {i \in 1..(Len(s) - 10) :
                    /\ Lower(SubSeq(s, i, i + 10)) = "description"
                    /\ SpacesEnd(s, i + 11) >= i + 11
                    /\ SpacesEnd(s, i + 11) + 2 <= Len(s)
                    /\ Lower(SubSeq(s, SpacesEnd(s, i + 11) + 1,
                                       SpacesEnd(s, i + 11) + 2)) = "to"
                    /\ TailCapture(s, SpacesEnd(s, i + 11) + 3).ok}
    IN  IF hits = {} THEN [ok |-> FALSE]
        ELSE LET i == CHOOSE h \in hits : \A k \in hits : h <= k
             IN  TailCapture(s, SpacesEnd(s, i + 11) + 3)

\* The changes dict; the task argument is not read.
_extract_changes_from_message(message) ==
    LET message_lower == Lower(message)
        priority == IF Contains(message_lower, "priority")
                    THEN FirstPriority(message_lower) ELSE "None"
        status == _extract_status_from_message(message)
        desc == IF Contains(message_lower, "description")
                THEN DescriptionCapture(message) ELSE [ok |-> FALSE]
        keys == (IF priority # "None" THEN {"priority"} ELSE {})
                \cup (IF status # "None" THEN {"status"} ELSE {})
                \cup (IF desc.ok THEN {"description"} ELSE {})
    IN  [k \in keys |-> CASE k = "priority" -> priority
                          [] k = "status" -> status
                          [] k = "description" -> Strip(desc.group)]

\* The filters dict of queries and bulk operations
_extract_filters_from_message(message) ==
    LET message_lower == Lower(message)
        priority == FirstPriority(message_lower)
        status == FirstStatus(message_lower,
                              <<"in progress", "progress", "working">>,
                              <<"completed", "done", "finished">>)
        with == IF Contains(message_lower, "with")
                THEN CaptureAfter(message, "with") ELSE [ok |-> FALSE]
        containing == IF Contains(message_lower, "containing")
                      THEN CaptureAfter(message, "containing") ELSE [ok |-> FALSE]
        search_term ==
            IF with.ok /\ containing.ok
              THEN Strip(with.group) \o " " \o Strip(containing.group)
            ELSE IF with.ok THEN Strip(with.group)
            ELSE Strip(containing.group)
        keys == (IF priority # "None" THEN {"priority"} ELSE {})
                \cup (IF status # "None" THEN {"status"} ELSE {})
                \cup (IF with.ok \/ containing.ok THEN {"search_term"} ELSE {})
    IN  [k \in keys |-> CASE k = "priority" -> priority
                          [] k = "status" -> status
                          [] k = "search_term" -> search_term]

\* The id of the first user, in id order, whose username or full name occurs
\* in the message; NULL when there is none.
_extract_assignee_from_message(message) ==
    LET m == Lower(message)
        hits == {u \in UserIds :
                    \/ Contains(m, Lower(users[u].username))
                    \/ /\ users[u].full_name # "None"
                       /\ Contains(m, Lower(users[u].full_name))}
    IN  IF hits = {} THEN NULL ELSE CHOOSE u \in hits : \A k \in hits : u <= k

-----------------------------------------------------------------------------
(* Parsing a task out of natural language *)

\* dict with key k set to v
Put(d, k, v) == [x \in DOMAIN d \cup {k} |-> IF x = k THEN v ELSE d[x]]

\* d.get(k) is falsy: the key is missing, None or ""
Falsy(d, k) == k \notin DOMAIN d \/ d[k] = "None" \/ d[k] = ""

\* The int() of assigned_to_id is not modelled: the replies carry no such key.
_validate_parsed_task(task_data) ==
    LET d1 == IF Falsy(task_data, "title") THEN Put(task_data, "title", "New Task")
              ELSE task_data
        d2 == IF Get(d1, "priority", "None") \notin TaskPriorityValues
              THEN Put(d1, "priority", "medium") ELSE d1
        d3 == IF Get(d2, "status", "None") \notin TaskStatusValues
              THEN Put(d2, "status", "todo") ELSE d2
    IN  IF ~Falsy(d3, "due_date") /\ ~Contains(d3["due_date"], "T")
        THEN Put(d3, "due_date", d3["due_date"] \o "T23:59:59Z") ELSE d3

\* user_input.split('.')[0]
FirstSentence(s) ==
    LET dots == {i \in 1..Len(s) : SubSeq(s, i, i) = "."}
    IN  IF dots = {} THEN s
        ELSE SubSeq(s, 1, (CHOOSE i \in dots : \A k \in dots : i <= k) - 1)

\* strftime('%Y-%m-%dT23:59:59Z') of a day of the clock, a day being a number
DueDate(day) == "day " \o ToString(day) \o "T23:59:59Z"

\* today is the day datetime.now() falls on.
_fallback_parse(user_input, today) ==
    LET t == Strip(FirstSentence(user_input))
        m == Lower(user_input)
    IN  [title |-> IF Len(t) > 100 THEN SubSeq(t, 1, 97) \o "..." ELSE t,
         description |-> user_input,
         priority |-> IF AnyIn(<<"urgent", "asap", "critical">>, m) THEN "urgent"
                      ELSE IF AnyIn(<<"high", "important">>, m) THEN "high"
                      ELSE IF AnyIn(<<"low", "minor">>, m) THEN "low"
                      ELSE "medium",
         status |-> "todo",
         due_date |-> IF Contains(m, "tomorrow") THEN DueDate(today + 1)
                      ELSE IF Contains(m, "next week") THEN DueDate(today + 7)
                      ELSE "None"]

parse_natural_language_task(user_input, reply, today) ==
    LET response == _call_ollama(reply)
    IN  IF response.raised THEN _fallback_parse(user_input, today)
        ELSE LET json_str == JsonSpan(response.value)
             IN  IF json_str = "" THEN _fallback_parse(user_input, today)
                 ELSE LET result == JsonLoads(json_str)
                      IN  IF result.raised THEN _fallback_parse(user_input, today)
                          ELSE _validate_parsed_task(result.value)

-----------------------------------------------------------------------------
(* The proposer: one handler per intent.  Each returns the response dict;   *)
(* none of them writes to the session.                                      *)

_format_changes(changes) ==
    IF DOMAIN changes = {} THEN "no changes detected"
    ELSE LET part(k) == k \o " -> " \o changes[k]
             P == IF "priority" \in DOMAIN changes THEN <<part("priority")>> ELSE <<>>
             S == IF "status" \in DOMAIN changes THEN <<part("status")>> ELSE <<>>
             D == IF "description" \in DOMAIN changes THEN <<part("description")>> ELSE <<>>
             parts == P \o S \o D
         IN  IF Len(parts) = 1 THEN parts[1]
             ELSE IF Len(parts) = 2 THEN parts[1] \o ", " \o parts[2]
             ELSE parts[1] \o ", " \o parts[2] \o ", " \o parts[3]

\* The response of each handler, given what it found in the message and the
\* table.
CreateProposal(task_data) ==
    [action |-> "create_task",
     data |-> task_data,
     message |-> "I can create a task titled '" \o task_data["title"] \o "' with "
                 \o task_data["priority"] \o " priority. Would you like me to proceed?",
     confirmation_needed |-> TRUE]

_handle_create_task(message, user_id, db, reply, today) ==
    CreateProposal(parse_natural_language_task(message, reply, today))

EditProposal(task, changes, db) ==
    IF task = NULL
    THEN [action |-> "error",
          message |-> "I couldn't find the task you want to edit. Please be more specific or provide the task ID."]
    ELSE [action |-> "edit_task",
          data |-> [task_id |-> task, task_title |-> db[task].title, changes |-> changes],
          message |-> "I can update the task '" \o db[task].title
                      \o "' with the following changes: " \o _format_changes(changes)
                      \o ". Should I proceed?",
          confirmation_needed |-> TRUE]

_handle_edit_task(message, user_id, db, intent_data) ==
    EditProposal(_find_task_from_message(message, user_id, db),
                 _extract_changes_from_message(message), db)

MoveProposal(task, new_status, db) ==
    IF task = NULL
    THEN [action |-> "error",
          message |-> "I couldn't find the task you want to move. Please be more specific."]
    ELSE IF new_status = "None"
    THEN [action |-> "error",
          message |-> "I couldn't determine where you want to move the task. Please specify: todo, in progress, in review, or completed."]
    ELSE [action |-> "move_task",
          data |-> [task_id |-> task, task_title |-> db[task].title,
                    current_status |-> db[task].status, new_status |-> new_status],
          message |-> "I can move the task '" \o db[task].title \o "' from "
                      \o db[task].status \o " to " \o new_status \o ". Should I proceed?",
          confirmation_needed |-> TRUE]

_handle_move_task(message, user_id, db, intent_data) ==
    MoveProposal(_find_task_from_message(message, user_id, db),
                 _extract_status_from_message(message), db)

\* DeleteProposal returning the proposal without the confirmation_needed key
DeleteProposalImmediate(task, db) ==
    IF task = NULL
    THEN [action |-> "error",
          message |-> "I couldn't find the task you want to delete. Please be more specific."]
    ELSE [action |-> "delete_task",
          data |-> [task_id |-> task, task_title |-> db[task].title],
          message |-> "Are you sure you want to delete the task '" \o db[task].title
                      \o "'? This action cannot be undone."]

DeleteProposal(task, db) ==
    IF task = NULL
    THEN [action |-> "error",
          message |-> "I couldn't find the task you want to delete. Please be more specific."]
    ELSE [action |-> "delete_task",
          data |-> [task_id |-> task, task_title |-> db[task].title],
          message |-> "Are you sure you want to delete the task '" \o db[task].title
                      \o "'? This action cannot be undone.",
          confirmation_needed |-> TRUE]

_handle_delete_task(message, user_id, db, intent_data) ==
    DeleteProposal(_find_task_from_message(message, user_id, db), db)

AssignProposal(task, assignee, db) ==
    IF task = NULL
    THEN [action |-> "error",
          message |-> "I couldn't find the task you want to assign. Please be more specific."]
    ELSE IF assignee = NULL
    THEN [action |-> "error",
          message |-> "I couldn't determine who you want to assign the task to. Please specify a username."]
    ELSE [action |-> "assign_task",
          data |-> [task_id |-> task, task_title |-> db[task].title,
                    assignee_id |-> assignee,
                    assignee_name |-> users[assignee].username],
          message |-> "I can assign the task '" \o db[task].title \o "' to "
                      \o users[assignee].username \o ". Should I proceed?",
          confirmation_needed |-> TRUE]

_handle_assign_task(message, user_id, db, intent_data) ==
    AssignProposal(_find_task_from_message(message, user_id, db),
                   _extract_assignee_from_message(message), db)

\* FilterIds without the priority filter
FilterIdsByStatus(db, user_id, filters) ==
    {i \in OwnedIds(db, user_id) :
        "status" \in DOMAIN filters => db[i].status = filters["status"]}

\* The rows of the owner that pass the status and priority filters
FilterIds(db, user_id, filters) ==
    {i \in OwnedIds(db, user_id) :
        /\ "status" \in DOMAIN filters => db[i].status = filters["status"]
        /\ "priority" \in DOMAIN filters => db[i].priority = filters["priority"]}

\* The rows that also pass the search term, if the filters have one
SearchIds(db, ids, filters) ==
    {i \in ids : "search_term" \in DOMAIN filters =>
                    \/ ILike(db[i].title, filters["search_term"])
                    \/ ILike(db[i].description, filters["search_term"])}

QueryResult(found, db) ==
    IF Len(found) = 0
    THEN [action |-> "query_result",
          message |-> "No tasks found matching your criteria."]
    ELSE [action |-> "query_result",
          message |-> "Found " \o ToString(Len(found)) \o " tasks:",
          data |-> [tasks |-> [j \in 1..Len(found) |->
                        [id |-> found[j], title |-> db[found[j]].title,
                         status |-> db[found[j]].status,
                         priority |-> db[found[j]].priority]]]]

Matching(db, user_id, filters) ==
    Take(SortedIds(SearchIds(db, FilterIds(db, user_id, filters), filters)), 10)

_handle_query_tasks(message, user_id, db, intent_data) ==
    QueryResult(Matching(db, user_id, _extract_filters_from_message(message)), db)

BulkProposal(operation, found) ==
    IF Len(found) = 0
    THEN [action |-> "error",
          message |-> "No tasks found matching your criteria for bulk operation."]
    ELSE [action |-> "bulk_operation",
          data |-> [operation |-> operation, task_count |-> Len(found),
                    task_ids |-> found],
          message |-> "This will " \o operation \o " " \o ToString(Len(found))
                      \o " tasks. Are you sure you want to proceed?",
          confirmation_needed |-> TRUE]

_handle_bulk_operation(message, user_id, db, intent_data) ==
    BulkProposal(Get(intent_data, "operation", "unknown"),
                 SortedIds(FilterIds(db, user_id, _extract_filters_from_message(message))))

CountStatus(db, user_id, status) ==
    Cardinality({i \in OwnedIds(db, user_id) : db[i].status = status})

\* The summary text is given by its numbers.
_handle_status_request(message, user_id, db) ==
    IF OwnedIds(db, user_id) = {}
    THEN [action |-> "status_summary",
          message |-> "You don't have any tasks yet. Would you like me to create one for you?"]
    ELSE [action |-> "status_summary",
          message |-> "Total tasks: " \o ToString(Cardinality(OwnedIds(db, user_id)))
                      \o " Completed: " \o ToString(CountStatus(db, user_id, "completed"))
                      \o " In Progress: " \o ToString(CountStatus(db, user_id, "in_progress"))
                      \o " To Do: " \o ToString(CountStatus(db, user_id, "todo"))
                      \o " In Review: " \o ToString(CountStatus(db, user_id, "in_review"))]

_handle_help_request ==
    [action |-> "help", message |-> "AI Task Assistant - Full Automation Commands"]

_handle_general_query(message, user_id, db) ==
    [action |-> "general_response",
     message |-> "I'm here to help you manage your tasks! Try asking me to create, edit, move, assign, or search for tasks. Type 'help' for more commands."]

\* The if/elif chain on intent['action']
Dispatch(intent, message, user_id, db, reply2, today) ==
    CASE intent["action"] = "create_task" ->
            _handle_create_task(message, user_id, db, reply2, today)
      [] intent["action"] = "edit_task" ->
            _handle_edit_task(message, user_id, db, Get(intent, "data", EmptyDict))
      [] intent["action"] = "delete_task" ->
            _handle_delete_task(message, user_id, db, Get(intent, "data", EmptyDict))
      [] intent["action"] = "move_task" ->
            _handle_move_task(message, user_id, db, Get(intent, "data", EmptyDict))
      [] intent["action"] = "assign_task" ->
            _handle_assign_task(message, user_id, db, Get(intent, "data", EmptyDict))
      [] intent["action"] = "query_tasks" ->
            _handle_query_tasks(message, user_id, db, Get(intent, "data", EmptyDict))
      [] intent["action"] = "bulk_operation" ->
            _handle_bulk_operation(message, user_id, db, Get(intent, "data", EmptyDict))
      [] intent["action"] = "status_request" ->
            _handle_status_request(message, user_id, db)
      [] intent["action"] = "help" -> _handle_help_request
      [] OTHER -> _handle_general_query(message, user_id, db)

\* Processed with the bulk operation of the intent applied at once: the
\* caller's rows that pass the filters of the message are deleted.
ProcessedApplied(intent, message, user_id, db, reply2, today) ==
    [db |-> IF Get(intent, "action", "None") = "bulk_operation"
            THEN [i \in DOMAIN db
                        \ FilterIds(db, user_id, _extract_filters_from_message(message))
                    |-> db[i]]
            ELSE db,
     intent |-> intent,
     result |-> IF "action" \notin DOMAIN intent THEN Raise("KeyError")
                ELSE Ret(Dispatch(intent, message, user_id, db, reply2, today))]

\* intent['action'] of an intent without that key is a KeyError, which nothing
\* in process_chat_message catches.
Processed(intent, message, user_id, db, reply2, today) ==
    [db |-> db,
     intent |-> intent,
     result |-> IF "action" \notin DOMAIN intent THEN Raise("KeyError")
                ELSE Ret(Dispatch(intent, message, user_id, db, reply2, today))]

\* What process_chat_message does: the session it leaves, what it returns (or
\* raises) and, for reference, the intent it classified.  reply answers the
\* classification call, reply2 the parsing call that only create_task makes.
process_chat_message(message, user_id, db, reply, reply2, today) ==
    Processed(_classify_intent(message, user_id, db, reply), message, user_id, db, reply2,
              today)

-----------------------------------------------------------------------------
(* The executor.  Each method returns the table it leaves and its result.   *)
(* fault names the database call of this request that raises, if any:       *)
(* "query" (the SELECT), "commit", "refresh" (the reload after a commit),   *)
(* or "none".  A failed commit writes nothing; db.rollback() discards the   *)
(* uncommitted changes of the session.                                      *)

Faults == {"none", "query", "commit", "refresh"}

Failure(text) == Ret([success |-> FALSE, message |-> text])

NewRow(nid, user_id, title, description, status, priority, assigned_to_id) ==
    [title |-> title, description |-> description, status |-> status,
     priority |-> priority, owner_id |-> user_id, assigned_to_id |-> assigned_to_id,
     completed_at |-> NULL, created_at |-> nid, board_position |-> 0,
     review_status |-> "pending"]

Insert(db, nid, row) == [i \in DOMAIN db \cup {nid} |-> IF i = nid THEN row ELSE db[i]]

Delete(db, ids) == [i \in DOMAIN db \ ids |-> db[i]]

execute_task_creation(task_data, user_id, db, nid, fault) ==
    IF "title" \notin DOMAIN task_data
    THEN [db |-> db, result |-> Failure("Failed to create task: 'title'")]
    ELSE LET row == NewRow(nid, user_id, task_data["title"],
                        Get(task_data, "description", ""),
                        IF Get(task_data, "status", "todo") \in TaskStatusValues
                          THEN Get(task_data, "status", "todo") ELSE "todo",
                        IF Get(task_data, "priority", "medium") \in TaskPriorityValues
                          THEN Get(task_data, "priority", "medium") ELSE "medium",
                        Get(task_data, "assigned_to_id", NULL))
         IN  IF fault = "commit"
             THEN [db |-> db, result |-> Failure("Failed to create task: commit")]
             ELSE IF fault = "refresh"
             THEN [db |-> Insert(db, nid, row),
                   result |-> Failure("Failed to create task: refresh")]
             ELSE [db |-> Insert(db, nid, row),
                   result |-> Ret([success |-> TRUE, task |-> row,
                                   message |-> "Task '" \o task_data["title"]
                                               \o "' created successfully!"])]

\* The row after the loop over changes.items()
ApplyChanges(row, changes) ==
    LET r1 == IF "priority" \in DOMAIN changes /\ changes["priority"] \in TaskPriorityValues
              THEN [row EXCEPT !.priority = changes["priority"]] ELSE row
        r2 == IF "status" \in DOMAIN changes /\ changes["status"] \in TaskStatusValues
              THEN [r1 EXCEPT !.status = changes["status"]] ELSE r1
        r3 == IF "description" \in DOMAIN changes
              THEN [r2 EXCEPT !.description = changes["description"]] ELSE r2
    IN  IF "title" \in DOMAIN changes THEN [r3 EXCEPT !.title = changes["title"]] ELSE r3

\* updated_fields, as the set of the fields updated
UpdatedFields(changes) ==
    {k \in DOMAIN changes :
        \/ k = "priority" /\ changes[k] \in TaskPriorityValues
        \/ k = "status" /\ changes[k] \in TaskStatusValues
        \/ k \in {"description", "title"}}

\* The success message is kept without its "Changes: ..." list, and every
\* message without its leading emoji.
execute_task_edit(task_id, changes, user_id, db, fault) ==
    LET task == OwnedTask(db, task_id, user_id)
        new == [db EXCEPT ![task] = ApplyChanges(db[task], changes)]
    IN  IF fault = "query"
        THEN [db |-> db, result |-> Failure("Failed to update task: query")]
        ELSE IF task = NULL THEN [db |-> db, result |-> Failure("Task not found")]
        ELSE IF UpdatedFields(changes) = {}
        THEN [db |-> db, result |-> Failure("No valid changes found")]
        ELSE IF fault = "commit"
        THEN [db |-> db, result |-> Failure("Failed to update task: commit")]
        ELSE IF fault = "refresh"
        THEN [db |-> new, result |-> Failure("Failed to update task: refresh")]
        ELSE [db |-> new,
              result |-> Ret([success |-> TRUE, task |-> new[task],
                              message |-> "Task '" \o new[task].title
                                          \o "' updated successfully!"])]

\* execute_task_move setting completed_at on a move to completed and leaving
\* it as it is on every other move
execute_task_move_kept(task_id, new_status, user_id, db, fault) ==
    LET task == OwnedTask(db, task_id, user_id)
        new == [db EXCEPT ![task] =
                   [@ EXCEPT !.status = new_status,
                             !.completed_at = IF new_status = "completed" THEN NOW
                                              ELSE @]]
    IN  IF fault = "query"
        THEN [db |-> db, result |-> Failure("Failed to move task: query")]
        ELSE IF task = NULL THEN [db |-> db, result |-> Failure("Task not found")]
        ELSE IF new_status \notin TaskStatusValues
        THEN [db |-> db, result |-> Failure("Invalid status: " \o new_status)]
        ELSE IF fault = "commit"
        THEN [db |-> db, result |-> Failure("Failed to move task: commit")]
        ELSE IF fault = "refresh"
        THEN [db |-> new, result |-> Failure("Failed to move task: refresh")]
        ELSE [db |-> new,
              result |-> Ret([success |-> TRUE, task |-> new[task],
                              message |-> "Task '" \o new[task].title \o "' moved from "
                                          \o db[task].status \o " to " \o new_status \o "!"])]

execute_task_move(task_id, new_status, user_id, db, fault) ==
    LET task == OwnedTask(db, task_id, user_id)
        new == [db EXCEPT ![task] =
                   [@ EXCEPT !.status = new_status,
                             !.completed_at = IF new_status = "completed" THEN NOW
                                              ELSE IF @ # NULL THEN NULL
                                              ELSE @]]
    IN  IF fault = "query"
        THEN [db |-> db, result |-> Failure("Failed to move task: query")]
        ELSE IF task = NULL THEN [db |-> db, result |-> Failure("Task not found")]
        ELSE IF new_status \notin TaskStatusValues
        THEN [db |-> db, result |-> Failure("Invalid status: " \o new_status)]
        ELSE IF fault = "commit"
        THEN [db |-> db, result |-> Failure("Failed to move task: commit")]
        ELSE IF fault = "refresh"
        THEN [db |-> new, result |-> Failure("Failed to move task: refresh")]
        ELSE [db |-> new,
              result |-> Ret([success |-> TRUE, task |-> new[task],
                              message |-> "Task '" \o new[task].title \o "' moved from "
                                          \o db[task].status \o " to " \o new_status \o "!"])]

\* execute_task_assignment without the lookup of the assignee
execute_task_assignment_unchecked(task_id, assignee_id, user_id, db, fault) ==
    LET task == OwnedTask(db, task_id, user_id)
        new == [db EXCEPT ![task] = [@ EXCEPT !.assigned_to_id = assignee_id]]
    IN  IF fault = "query"
        THEN [db |-> db, result |-> Failure("Failed to assign task: query")]
        ELSE IF task = NULL THEN [db |-> db, result |-> Failure("Task not found")]
        ELSE IF fault = "commit"
        THEN [db |-> db, result |-> Failure("Failed to assign task: commit")]
        ELSE IF fault = "refresh"
        THEN [db |-> new, result |-> Failure("Failed to assign task: refresh")]
        ELSE [db |-> new,
              result |-> Ret([success |-> TRUE, task |-> new[task],
                              message |-> "Task '" \o new[task].title \o "' assigned!"])]

execute_task_assignment(task_id, assignee_id, user_id, db, fault) ==
    LET task == OwnedTask(db, task_id, user_id)
        new == [db EXCEPT ![task] = [@ EXCEPT !.assigned_to_id = assignee_id]]
    IN  IF fault = "query"
        THEN [db |-> db, result |-> Failure("Failed to assign task: query")]
        ELSE IF task = NULL THEN [db |-> db, result |-> Failure("Task not found")]
        ELSE IF assignee_id \notin UserIds
        THEN [db |-> db, result |-> Failure("Assignee not found")]
        ELSE IF fault = "commit"
        THEN [db |-> db, result |-> Failure("Failed to assign task: commit")]
        ELSE IF fault = "refresh"
        THEN [db |-> new, result |-> Failure("Failed to assign task: refresh")]
        ELSE [db |-> new,
              result |-> Ret([success |-> TRUE, task |-> new[task],
                              message |-> "Task '" \o new[task].title \o "' assigned to "
                                          \o users[assignee_id].username \o "!"])]

execute_task_deletion(task_id, user_id, db, fault) ==
    LET task == OwnedTask(db, task_id, user_id)
    IN  IF fault = "query"
        THEN [db |-> db, result |-> Failure("Failed to delete task: query")]
        ELSE IF task = NULL THEN [db |-> db, result |-> Failure("Task not found")]
        ELSE IF fault = "commit"
        THEN [db |-> db, result |-> Failure("Failed to delete task: commit")]
        ELSE [db |-> Delete(db, {task}),
              result |-> Ret([success |-> TRUE,
                              message |-> "Task '" \o db[task].title
                                          \o "' deleted successfully!"])]

\* The elements of a list, as a set
Elems(list) == {list[j] : j \in 1..Len(list)}

\* execute_bulk_operation completing the tasks for every operation name
\* other than delete
execute_bulk_operation_lenient(operation, task_ids, user_id, db, fault) ==
    LET found == {i \in OwnedIds(db, user_id) : i \in Elems(task_ids)}
        n == ToString(Cardinality(found))
    IN  IF fault = "query"
        THEN [db |-> db, result |-> Failure("Failed to execute bulk operation: query")]
        ELSE IF found = {} THEN [db |-> db, result |-> Failure("No tasks found")]
        ELSE IF fault = "commit"
        THEN [db |-> db, result |-> Failure("Failed to execute bulk operation: commit")]
        ELSE IF operation = "delete"
        THEN [db |-> Delete(db, found),
              result |-> Ret([success |-> TRUE,
                              message |-> n \o " tasks deleted successfully!"])]
        ELSE [db |-> [i \in DOMAIN db |->
                        IF i \in found
                        THEN [db[i] EXCEPT !.status = "completed", !.completed_at = NOW]
                        ELSE db[i]],
              result |-> Ret([success |-> TRUE,
                              message |-> n \o " tasks marked as completed!"])]

\* execute_bulk_operation acting on every task of the caller, whatever
\* task_ids lists
execute_bulk_operation_all(operation, task_ids, user_id, db, fault) ==
    LET found == OwnedIds(db, user_id)
    IN  IF fault = "query" \/ found = {} \/ operation \notin {"delete", "complete"}
             \/ fault = "commit"
        THEN [db |-> db, result |-> Failure("Failed to execute bulk operation")]
        ELSE IF operation = "delete"
        THEN [db |-> Delete(db, found),
              result |-> Ret([success |-> TRUE, message |-> "tasks deleted successfully!"])]
        ELSE [db |-> [i \in DOMAIN db |->
                        IF i \in found
                        THEN [db[i] EXCEPT !.status = "completed", !.completed_at = NOW]
                        ELSE db[i]],
              result |-> Ret([success |-> TRUE, message |-> "tasks marked as completed!"])]

\* execute_bulk_operation completing only the listed tasks that are still
\* to do, and deleting only those that are still completed
execute_bulk_operation_rechecked(operation, task_ids, user_id, db, fault) ==
    LET found == {i \in OwnedIds(db, user_id) :
                    /\ i \in Elems(task_ids)
                    /\ operation = "complete" => db[i].status = "todo"
                    /\ operation = "delete" => db[i].status = "completed"}
    IN  IF fault = "query" \/ found = {} \/ operation \notin {"delete", "complete"}
             \/ fault = "commit"
        THEN [db |-> db, result |-> Failure("Failed to execute bulk operation")]
        ELSE IF operation = "delete"
        THEN [db |-> Delete(db, found),
              result |-> Ret([success |-> TRUE, message |-> "tasks deleted successfully!"])]
        ELSE [db |-> [i \in DOMAIN db |->
                        IF i \in found
                        THEN [db[i] EXCEPT !.status = "completed", !.completed_at = NOW]
                        ELSE db[i]],
              result |-> Ret([success |-> TRUE, message |-> "tasks marked as completed!"])]

execute_bulk_operation(operation, task_ids, user_id, db, fault) ==
    LET found == {i \in OwnedIds(db, user_id) : i \in Elems(task_ids)}
        n == ToString(Cardinality(found))
    IN  IF fault = "query"
        THEN [db |-> db, result |-> Failure("Failed to execute bulk operation: query")]
        ELSE IF found = {} THEN [db |-> db, result |-> Failure("No tasks found")]
        ELSE IF operation = "delete"
        THEN IF fault = "commit"
             THEN [db |-> db, result |-> Failure("Failed to execute bulk operation: commit")]
             ELSE [db |-> Delete(db, found),
                   result |-> Ret([success |-> TRUE,
                                   message |-> n \o " tasks deleted successfully!"])]
        ELSE IF operation = "complete"
        THEN IF fault = "commit"
             THEN [db |-> db, result |-> Failure("Failed to execute bulk operation: commit")]
             ELSE [db |-> [i \in DOMAIN db |->
                             IF i \in found
                             THEN [db[i] EXCEPT !.status = "completed", !.completed_at = NOW]
                             ELSE db[i]],
                   result |-> Ret([success |-> TRUE,
                                   message |-> n \o " tasks marked as completed!"])]
        ELSE [db |-> db, result |-> Failure("Unsupported bulk operation: " \o operation)]

-----------------------------------------------------------------------------
(* The task CRUD endpoints (app/api/v1/tasks.py).  An HTTPException is a    *)
(* raised "HTTP <code>".                                                    *)

create_task(task, user_id, db, nid) ==
    LET row == NewRow(nid, user_id, task["title"], Get(task, "description", "None"),
                      Get(task, "status", "todo"), Get(task, "priority", "medium"),
                      Get(task, "assigned_to_id", NULL))
    IN  [db |-> Insert(db, nid, row), result |-> Ret(row)]

\* update_data with completed_at added as the endpoint adds it
WithCompletedAt(row, update_data) ==
    IF "status" \notin DOMAIN update_data THEN update_data
    ELSE IF update_data["status"] = "completed" /\ row.status # "completed"
      THEN Put(update_data, "completed_at", NOW)
    ELSE IF update_data["status"] # "completed"
      THEN Put(update_data, "completed_at", NULL)
    ELSE update_data

\* setattr(task, field, value) for every item of update_data
SetAttrs(row, update_data) ==
    [f \in DOMAIN row |-> IF f \in DOMAIN update_data THEN update_data[f] ELSE row[f]]

update_task(task_id, task_update, user_id, db) ==
    LET task == OwnedTask(db, task_id, user_id)
        new == [db EXCEPT ![task] = SetAttrs(db[task], WithCompletedAt(db[task], task_update))]
    IN  IF task = NULL THEN [db |-> db, result |-> Raise("HTTP 404")]
        ELSE [db |-> new, result |-> Ret(new[task])]

\* a reindexing loop that leaves every other task at its index
ReindexedFlat(i, new_position) == i

\* The position the reindexing loop gives the i-th other task of the column
\* (i from 0)
Reindexed(i, new_position) == IF i >= new_position THEN i + 1 ELSE i

move_task(task_id, new_status, new_position, user_id, db) ==
    LET task == OwnedTask(db, task_id, user_id)
        other_tasks == SortedIds({i \in OwnedIds(db, user_id) :
                                    db[i].status = new_status /\ i # task_id})
        Index(i) == CHOOSE j \in 1..Len(other_tasks) : other_tasks[j] = i
    IN  IF task = NULL THEN [db |-> db, result |-> Raise("HTTP 404")]
        ELSE [db |-> [i \in DOMAIN db |->
                        IF i = task
                          THEN [db[i] EXCEPT !.status = new_status,
                                             !.board_position = new_position]
                        ELSE IF i \in Elems(other_tasks)
                          THEN [db[i] EXCEPT !.board_position =
                                                Reindexed(Index(i) - 1, new_position)]
                        ELSE db[i]],
              result |-> Ret([message |-> "Task moved successfully"])]

\* The 403 branch needs task.owner_id != current_user.id, which the query
\* excludes; review_notes and reviewed_at are not part of the modelled row.
review_task(task_id, review_status, user_id, db) ==
    LET task == OwnedTask(db, task_id, user_id)
        new == [db EXCEPT ![task] =
                   [@ EXCEPT !.review_status = review_status,
                             !.status = IF review_status = "approved" THEN "completed"
                                        ELSE IF review_status = "rejected" THEN "in_progress"
                                        ELSE @]]
    IN  IF task = NULL THEN [db |-> db, result |-> Raise("HTTP 404")]
        ELSE [db |-> new, result |-> Ret(new[task])]

delete_task(task_id, user_id, db) ==
    LET task == OwnedTask(db, task_id, user_id)
    IN  IF task = NULL THEN [db |-> db, result |-> Raise("HTTP 404")]
        ELSE [db |-> Delete(db, {task}), result |-> Ret("None")]

-----------------------------------------------------------------------------
(* The assistant's endpoints (app/api/v1/ai.py) *)

\* ran: the executor method the request called, "None" when it called none
confirm_ai_action(action, data, user_id, db, nid, fault) ==
    LET Missing(keys) == ~(keys \subseteq DOMAIN data)
        Done(name, r) == [db |-> r.db, result |-> r.result, ran |-> name]
        Http500 == [db |-> db, result |-> Raise("HTTP 500"), ran |-> "None"]
    IN  CASE action = "create_task" ->
                Done("execute_task_creation",
                     execute_task_creation(data, user_id, db, nid, fault))
          [] action = "edit_task" ->
                IF Missing({"task_id", "changes"}) THEN Http500
                ELSE Done("execute_task_edit",
                          execute_task_edit(data["task_id"], data["changes"],
                                            user_id, db, fault))
          [] action = "move_task" ->
                IF Missing({"task_id", "new_status"}) THEN Http500
                ELSE Done("execute_task_move",
                          execute_task_move(data["task_id"], data["new_status"],
                                            user_id, db, fault))
          [] action = "assign_task" ->
                IF Missing({"task_id", "assignee_id"}) THEN Http500
                ELSE Done("execute_task_assignment",
                          execute_task_assignment(data["task_id"], data["assignee_id"],
                                                  user_id, db, fault))
          [] action = "delete_task" ->
                IF Missing({"task_id"}) THEN Http500
                ELSE Done("execute_task_deletion",
                          execute_task_deletion(data["task_id"], user_id, db, fault))
          [] action = "bulk_operation" ->
                IF Missing({"operation", "task_ids"}) THEN Http500
                ELSE Done("execute_bulk_operation",
                          execute_bulk_operation(data["operation"], data["task_ids"],
                                                 user_id, db, fault))
          [] OTHER -> [db |-> db, result |-> Raise("HTTP 400"), ran |-> "None"]

\* What an endpoint makes of an executor result: the success dict, or 400
Relay(r) ==
    IF r.result.value["success"]
    THEN [db |-> r.db, result |-> r.result]
    ELSE [db |-> r.db, result |-> Raise("HTTP 400")]

create_task_from_natural_language(natural_language, user_id, db, nid, reply, fault) ==
    Relay(execute_task_creation(parse_natural_language_task(natural_language, reply, NOW),
                                user_id, db, nid, fault))

smart_update_task(task_id, natural_language, user_id, db, fault) ==
    IF OwnedTask(db, task_id, user_id) = NULL
    THEN [db |-> db, result |-> Raise("HTTP 404")]
    ELSE Relay(execute_task_edit(task_id, _extract_changes_from_message(natural_language),
                                 user_id, db, fault))

move_task_with_ai(task_id, natural_language, user_id, db, fault) ==
    IF _extract_status_from_message(natural_language) = "None"
    THEN [db |-> db, result |-> Raise("HTTP 400")]
    ELSE Relay(execute_task_move(task_id, _extract_status_from_message(natural_language),
                                 user_id, db, fault))

assign_task_with_ai(task_id, natural_language, user_id, db, fault) ==
    IF _extract_assignee_from_message(natural_language) = NULL
    THEN [db |-> db, result |-> Raise("HTTP 400")]
    ELSE Relay(execute_task_assignment(task_id,
                                       _extract_assignee_from_message(natural_language),
                                       user_id, db, fault))

PcmCall(r) == [intent |-> r.intent, result |-> r.result]

\* ChatResponse(**response): the response with the defaults of the fields it
\* lacks
ChatResponse(response) ==
    [k \in DOMAIN response \cup {"data", "confirmation_needed"} |->
        IF k \in DOMAIN response THEN response[k]
        ELSE IF k = "data" THEN "None" ELSE FALSE]

\* What chat_with_llama makes of the call r of process_chat_message
Answered(r) ==
    IF r.result.raised
    THEN [db |-> r.db, result |-> Raise("HTTP 500"), pcm |-> <<PcmCall(r)>>]
    ELSE [db |-> r.db, result |-> Ret(ChatResponse(r.result.value)),
          pcm |-> <<PcmCall(r)>>]

\* health: the status check_ollama_status reports.  pcm: the calls of
\* process_chat_message the request made (none or one), each with its intent
\* and what it returned or raised.
chat_with_llama(message, user_id, db, health, reply, reply2) ==
    IF health # "available"
    THEN [db |-> db, result |-> Raise("HTTP 503"), pcm |-> <<>>]
    ELSE Answered(process_chat_message(message, user_id, db, reply, reply2, NOW))

\* BulkAnswered with the proposed operation carried out in the same request:
\* the rows of the proposal are deleted.
BulkAnsweredApplied(r) ==
    IF r.result.raised
    THEN [db |-> r.db, result |-> Raise("HTTP 500"), pcm |-> <<PcmCall(r)>>]
    ELSE IF /\ r.result.value["action"] = "bulk_operation"
            /\ Get(r.result.value, "confirmation_needed", FALSE)
    THEN [db |-> Delete(r.db, Elems(r.result.value["data"]["task_ids"])),
          pcm |-> <<PcmCall(r)>>,
          result |-> Ret([success |-> TRUE,
                          message |-> r.result.value["message"],
                          data |-> r.result.value["data"]])]
    ELSE [db |-> r.db, result |-> Raise("HTTP 400"), pcm |-> <<PcmCall(r)>>]

\* What bulk_operation_with_ai makes of the call r of process_chat_message
BulkAnswered(r) ==
    IF r.result.raised
    THEN [db |-> r.db, result |-> Raise("HTTP 500"), pcm |-> <<PcmCall(r)>>]
    ELSE IF /\ r.result.value["action"] = "bulk_operation"
            /\ Get(r.result.value, "confirmation_needed", FALSE)
    THEN [db |-> r.db, pcm |-> <<PcmCall(r)>>,
          result |-> Ret([success |-> FALSE, confirmation_needed |-> TRUE,
                          message |-> r.result.value["message"],
                          data |-> r.result.value["data"]])]
    ELSE [db |-> r.db, result |-> Raise("HTTP 400"), pcm |-> <<PcmCall(r)>>]

bulk_operation_with_ai(natural_language, user_id, db, reply, reply2) ==
    BulkAnswered(process_chat_message(natural_language, user_id, db, reply, reply2, NOW))

-----------------------------------------------------------------------------
(* The state machine: one step per request served.  Requests are served one *)
(* at a time; a client keeps the last proposal it was sent and may confirm  *)
(* it after any number of other requests.                                   *)

NoProposal == [user |-> NULL]

TaskIds == 1..MaxTaskId

\* the ids whose row was created, changed or deleted between two tables
Changed(db, new) ==
    {i \in DOMAIN db \cup DOMAIN new :
        i \notin DOMAIN db \/ i \notin DOMAIN new \/ db[i] # new[i]}

\* The proposal a client holds after a response: the response when it asks
\* for confirmation, else the one held before.
Held(held, user_id, message, pcm) ==
    IF /\ Len(pcm) = 1
       /\ ~pcm[1].result.raised
       /\ Get(pcm[1].result.value, "confirmation_needed", FALSE)
    THEN [user |-> user_id, message |-> message,
          action |-> pcm[1].result.value["action"],
          data |-> pcm[1].result.value["data"]]
    ELSE held

Chat(u, m, health, reply, reply2) ==
    \E r \in {chat_with_llama(m, u, tasks, health, reply, reply2)} :
        /\ tasks' = r.db
        /\ pending' = Held(pending, u, m, r.pcm)
        /\ last' = [op |-> "chat_with_llama", user |-> u, message |-> m,
                    health |-> health, reply |-> reply, result |-> r.result,
                    pcm |-> r.pcm,
                    changed |-> Changed(tasks, r.db)]
        /\ UNCHANGED next_id

BulkWithAi(u, m, reply, reply2) ==
    \E r \in {bulk_operation_with_ai(m, u, tasks, reply, reply2)} :
        /\ tasks' = r.db
        /\ pending' = Held(pending, u, m, r.pcm)
        /\ last' = [op |-> "bulk_operation_with_ai", user |-> u, message |-> m,
                    reply |-> reply, result |-> r.result, pcm |-> r.pcm,
                    changed |-> Changed(tasks, r.db)]
        /\ UNCHANGED next_id

\* The sequence advances when a row was inserted.
NextId(db, new) == IF next_id \in DOMAIN new \ DOMAIN db THEN next_id + 1 ELSE next_id

\* The payload is the proposal this client holds.
Proposed(u, action, data) ==
    /\ pending.user = u
    /\ pending.action = action
    /\ pending.data = data

\* The ids of a confirmed bulk proposal that no longer pass the filters of the
\* message that proposed them.
Stale(u, action, data) ==
    IF Proposed(u, action, data) /\ action = "bulk_operation"
    THEN Elems(data["task_ids"])
            \ FilterIds(tasks, u, _extract_filters_from_message(pending.message))
    ELSE {}

Confirm(u, action, data, fault) ==
    \E r \in {confirm_ai_action(action, data, u, tasks, next_id, fault)} :
        /\ action = "create_task" => next_id <= MaxTaskId
        /\ tasks' = r.db
        /\ next_id' = NextId(tasks, r.db)
        /\ last' = [op |-> "confirm_ai_action", user |-> u, action |-> action,
                    data |-> data, fault |-> fault, ran |-> r.ran,
                    proposed |-> Proposed(u, action, data),
                    stale |-> Stale(u, action, data),
                    result |-> r.result, changed |-> Changed(tasks, r.db)]
        /\ UNCHANGED pending

CreateFromNl(u, m, reply, fault) ==
    \E r \in {create_task_from_natural_language(m, u, tasks, next_id, reply, fault)} :
        /\ next_id <= MaxTaskId
        /\ tasks' = r.db
        /\ next_id' = NextId(tasks, r.db)
        /\ last' = [op |-> "create_task_from_natural_language", user |-> u,
                    message |-> m, fault |-> fault, ran |-> "execute_task_creation",
                    result |-> r.result, changed |-> Changed(tasks, r.db)]
        /\ UNCHANGED pending

\* The three endpoints that take a task id and a sentence
Direct(name, r, u, id, m, fault, ran) ==
    /\ tasks' = r.db
    /\ last' = [op |-> name, user |-> u, task_id |-> id, message |-> m,
                fault |-> fault, ran |-> ran, result |-> r.result,
                changed |-> Changed(tasks, r.db)]
    /\ UNCHANGED <<next_id, pending>>

SmartUpdate(u, id, m, fault) ==
    \E r \in {smart_update_task(id, m, u, tasks, fault)} :
        Direct("smart_update_task", r, u, id, m, fault,
               IF OwnedTask(tasks, id, u) = NULL THEN "None" ELSE "execute_task_edit")

MoveWithAi(u, id, m, fault) ==
    \E r \in {move_task_with_ai(id, m, u, tasks, fault)} :
        Direct("move_task_with_ai", r, u, id, m, fault,
               IF _extract_status_from_message(m) = "None" THEN "None"
               ELSE "execute_task_move")

AssignWithAi(u, id, m, fault) ==
    \E r \in {assign_task_with_ai(id, m, u, tasks, fault)} :
        Direct("assign_task_with_ai", r, u, id, m, fault,
               IF _extract_assignee_from_message(m) = NULL THEN "None"
               ELSE "execute_task_assignment")

\* The CRUD endpoints
Crud(name, r, u, args) ==
    /\ tasks' = r.db
    /\ next_id' = NextId(tasks, r.db)
    /\ last' = [op |-> name, user |-> u, args |-> args, result |-> r.result,
                changed |-> Changed(tasks, r.db)]
    /\ UNCHANGED pending

CrudCreate(u, task) ==
    /\ next_id <= MaxTaskId
    /\ \E r \in {create_task(task, u, tasks, next_id)} : Crud("create_task", r, u, task)

CrudUpdate(u, id, task_update) ==
    \E r \in {update_task(id, task_update, u, tasks)} :
        Crud("update_task", r, u, [task_id |-> id, task_update |-> task_update])

CrudMove(u, id, new_status, new_position) ==
    \E r \in {move_task(id, new_status, new_position, u, tasks)} :
        Crud("move_task", r, u, [task_id |-> id, new_status |-> new_status,
                                 new_position |-> new_position])

CrudReview(u, id, review_status) ==
    \E r \in {review_task(id, review_status, u, tasks)} :
        Crud("review_task", r, u, [task_id |-> id, review_status |-> review_status])

CrudDelete(u, id) ==
    \E r \in {delete_task(id, u, tasks)} : Crud("delete_task", r, u, [task_id |-> id])

NoRequest == [op |-> "none", user |-> NULL, changed |-> {}]

-----------------------------------------------------------------------------
(* Spec: the whole system from an empty table.  The database does not fail  *)
(* here, and at most MaxCreated tasks are ever created.                     *)

MaxCreated == 1

MaxPosition == 1

NoReply == [status |-> "timeout"]

TaskInputs == {[title |-> "Fix login", status |-> "todo"],
               [title |-> "Fix login", status |-> "completed"]}

UpdateInputs == {[status |-> "completed"], [status |-> "in_progress"]}

\* the payloads a client sends to confirm_ai_action without having been
\* proposed them
Payloads ==
    {<<"create_task", [title |-> "Fix login", status |-> "completed"]>>}
    \cup {<<"edit_task", [task_id |-> i, changes |-> [status |-> "completed"]]>> :
            i \in 1..MaxCreated}
    \cup {<<"move_task", [task_id |-> i, new_status |-> "todo"]>> : i \in 1..MaxCreated}

Init ==
    /\ tasks = EmptyDict
    /\ next_id = 1
    /\ pending = NoProposal
    /\ last = NoRequest

Next ==
    \/ \E u \in UserIds, health \in {"available", "unavailable"} :
            Chat(u, "Complete all todo tasks", health, Ok(ReplyBulkComplete), NoReply)
    \/ \E u \in UserIds :
            BulkWithAi(u, "Delete all completed tasks", Ok(ReplyBulkDelete), NoReply)
    \/ \E u \in UserIds, p \in Payloads :
            /\ next_id <= MaxCreated
            /\ Confirm(u, p[1], p[2], "none")
    \/ \E u \in UserIds :
            /\ pending.user = u
            /\ Confirm(u, pending.action, pending.data, "none")
    \/ \E u \in UserIds :
            /\ next_id <= MaxCreated
            /\ CreateFromNl(u, "Fix login. It is urgent", Ok(ReplyTask), "none")
    \/ \E u \in UserIds, i \in 1..MaxCreated :
            SmartUpdate(u, i, "mark it as in review", "none")
    \/ \E u \in UserIds, i \in 1..MaxCreated :
            MoveWithAi(u, i, "it is in progress now", "none")
    \/ \E u \in UserIds, i \in 1..MaxCreated : AssignWithAi(u, i, "give it to Bob", "none")
    \/ \E u \in UserIds, t \in TaskInputs :
            /\ next_id <= MaxCreated
            /\ CrudCreate(u, t)
    \/ \E u \in UserIds, i \in 1..MaxCreated, t \in UpdateInputs : CrudUpdate(u, i, t)
    \/ \E u \in UserIds, i \in 1..MaxCreated, pos \in 0..MaxPosition :
            CrudMove(u, i, "completed", pos)
    \/ \E u \in UserIds, i \in 1..MaxCreated, rs \in {"approved", "rejected"} :
            CrudReview(u, i, rs)
    \/ \E u \in UserIds, i \in 1..MaxCreated : CrudDelete(u, i)

Spec == Init /\ [][Next]_vars

-----------------------------------------------------------------------------
(* Tables the program reaches: up to MaxRows tasks, each created through    *)
(* create_task and then given its status through update_task.  SpecStep     *)
(* serves one executor or CRUD request on each of them, with every payload  *)
(* and every database fault; SpecChat serves one chat request on each, with *)
(* every message and every reply of the text-generation service.            *)

MaxRows == 2

SeedTask(n) ==
    IF n % 2 = 1 THEN [title |-> "Fix login bug", priority |-> "high"]
    ELSE [title |-> "Write login report", priority |-> "medium"]

SeedStatuses == {"todo", "in_progress", "completed"}

RECURSIVE Built(_)
Built(n) ==
    IF n = 0 THEN {EmptyDict}
    ELSE {update_task(n, [status |-> st], u,
                      create_task(SeedTask(n), u, db, n).db).db :
            db \in Built(n - 1), u \in UserIds, st \in SeedStatuses}

Tables == UNION {Built(n) : n \in 0..MaxRows}

InitTable ==
    /\ tasks \in Tables
    /\ next_id = Cardinality(DOMAIN tasks) + 1
    /\ pending = NoProposal
    /\ last = NoRequest

EditInputs ==
    {[priority |-> "high"], [status |-> "completed"], [status |-> "archived"],
     [priority |-> "high", status |-> "archived"]}

IdLists == {SortedIds(ids) : ids \in SUBSET TaskIds}

StepPayloads ==
    {<<"create_task", [title |-> "Fix login", priority |-> "high", status |-> "completed"]>>,
     <<"create_task", [priority |-> "soon"]>>,
     <<"create_task", [title |-> "Fix login", priority |-> "soon"]>>,
     <<"edit_task", EmptyDict>>,
     <<"delete_task", EmptyDict>>,
     <<"archive_task", EmptyDict>>}
    \cup {<<"edit_task", [task_id |-> i, changes |-> c]>> : i \in TaskIds, c \in EditInputs}
    \cup {<<"move_task", [task_id |-> i, new_status |-> st]>> :
            i \in TaskIds, st \in {"completed", "todo", "done"}}
    \cup {<<"assign_task", [task_id |-> i, assignee_id |-> a]>> :
            i \in TaskIds, a \in {2, 9}}
    \cup {<<"delete_task", [task_id |-> i]>> : i \in TaskIds}
    \cup {<<"bulk_operation", [operation |-> o, task_ids |-> ids]>> :
            o \in {"delete", "complete", "archive"}, ids \in IdLists}

\* No request has been served yet.
Idle == last.op = "none"

NextStep ==
    \/ \E u \in UserIds, p \in StepPayloads, fault \in Faults :
            Idle /\ Confirm(u, p[1], p[2], fault)
    \/ \E u \in UserIds, reply \in {NoReply, Ok(ReplyTask), Ok(ReplyTaskBare)},
          fault \in Faults :
            Idle /\ CreateFromNl(u, "Write tests. It is urgent", reply, fault)
    \/ \E u \in UserIds, i \in TaskIds, fault \in Faults,
          m \in {"Change the priority to low", "mark it as done", "nothing to say"} :
            Idle /\ SmartUpdate(u, i, m, fault)
    \/ \E u \in UserIds, i \in TaskIds, fault \in Faults,
          m \in {"move it to in review", "move it"} :
            Idle /\ MoveWithAi(u, i, m, fault)
    \/ \E u \in UserIds, i \in TaskIds, fault \in Faults,
          m \in {"give it to Bob", "give it away"} :
            Idle /\ AssignWithAi(u, i, m, fault)
    \/ \E u \in UserIds, t \in TaskInputs : Idle /\ CrudCreate(u, t)
    \/ \E u \in UserIds, i \in TaskIds,
          t \in UpdateInputs \cup {[status |-> "todo"], [priority |-> "low"]} :
            Idle /\ CrudUpdate(u, i, t)
    \/ \E u \in UserIds, i \in TaskIds, st \in TaskStatusValues, pos \in 0..MaxPosition :
            Idle /\ CrudMove(u, i, st, pos)
    \/ \E u \in UserIds, i \in TaskIds, rs \in {"approved", "rejected"} :
            Idle /\ CrudReview(u, i, rs)
    \/ \E u \in UserIds, i \in TaskIds : Idle /\ CrudDelete(u, i)

SpecStep == InitTable /\ [][NextStep]_vars

ChatMessages ==
    {"Delete all completed tasks", "Complete all todo tasks",
     "Change task #1 priority to high", "Move task #2 to done",
     "Assign task #1 to bob", "Create a task to write tests",
     "Show my high priority tasks", "What is my progress", "help", "hello there"}

ChatReplies ==
    OllamaFailures
    \cup {Ok(text) : text \in {ReplyBulkDelete, ReplyBulkComplete, ReplyBulkNoOperation,
                               ReplyEdit, ReplyDelete, ReplyStatus, ReplyCreate,
                               ReplyNoAction, ReplyUnknownAction, ReplyNoBraces,
                               ReplyNotJson, ReplyTwoObjects}}

NextChat ==
    \/ \E u \in UserIds, m \in ChatMessages, reply \in ChatReplies,
          health \in {"available", "unavailable"} :
            Idle /\ Chat(u, m, health, reply, NoReply)
    \/ \E u \in UserIds, reply \in ChatReplies :
            Idle /\ Chat(u, "Create a task to write tests", "available", reply,
                         Ok(ReplyTask))
    \/ \E u \in UserIds, reply \in ChatReplies,
          m \in {"Delete all completed tasks", "Show my high priority tasks"} :
            Idle /\ BulkWithAi(u, m, reply, NoReply)

SpecChat == InitTable /\ [][NextChat]_vars

-----------------------------------------------------------------------------
(* One task in every state the CRUD endpoints leave a row in: created with  *)
(* any status, then possibly updated, then possibly reviewed, so that       *)
(* completed_at may be set on a task that is not completed and unset on one *)
(* that is.  SpecRows serves one executor request on each such table.       *)

Created ==
    {create_task([title |-> "Fix login bug", priority |-> "high", status |-> st],
                 u, EmptyDict, 1).db : u \in UserIds, st \in TaskStatusValues}

Updated ==
    Created \cup {update_task(1, [status |-> st], db[1].owner_id, db).db :
                    db \in Created, st \in TaskStatusValues}

Rows ==
    Updated \cup {review_task(1, rs, db[1].owner_id, db).db :
                    db \in Updated, rs \in {"approved", "rejected"}}

InitRows ==
    /\ tasks \in Rows
    /\ next_id = 2
    /\ pending = NoProposal
    /\ last = NoRequest

MovePayloads ==
    {<<"move_task", [task_id |-> i, new_status |-> st]>> :
        i \in TaskIds, st \in TaskStatusValues \cup {"done"}}

NextRows ==
    \/ \E u \in UserIds, p \in MovePayloads, fault \in Faults :
            Idle /\ Confirm(u, p[1], p[2], fault)
    \/ \E u \in UserIds, i \in TaskIds, fault \in Faults,
          m \in {"move it to in review", "it is done", "back to todo"} :
            Idle /\ MoveWithAi(u, i, m, fault)

SpecRows == InitRows /\ [][NextRows]_vars

-----------------------------------------------------------------------------
(* SpecFind serves, on each table of Tables, one chat request that names a  *)
(* task by id or one executor request for a single task: the task, or the   *)
(* assignee, may or may not exist for the caller.                           *)

FindMessages ==
    {"Change task #1 priority to high", "Move task #2 to done",
     "Assign task #1 to bob", "Assign task #2 to carol", "Delete task #3"}

FindReplies == {NoReply, Ok(ReplyEdit), Ok(ReplyDelete)}

FindPayloads ==
    {p \in StepPayloads :
        /\ p[1] \in {"edit_task", "move_task", "assign_task", "delete_task"}
        /\ "task_id" \in DOMAIN p[2]}

NextFind ==
    \/ \E u \in UserIds, m \in FindMessages, reply \in FindReplies :
            Idle /\ Chat(u, m, "available", reply, NoReply)
    \/ \E u \in UserIds, p \in FindPayloads, fault \in Faults :
            Idle /\ Confirm(u, p[1], p[2], fault)

SpecFind == InitTable /\ [][NextFind]_vars

-----------------------------------------------------------------------------
(* SpecLocate applies _find_task_from_message to each table of Tables, for  *)
(* each caller and each message of LocateMessages.                          *)

LocateMessages ==
    {"login bug #3", "login bug #1", "login bug task 2", "TASK  1 login report",
     "login #2 #1", "#9 login", "login bug"}

Locate(u, m) ==
    /\ last' = [op |-> "_find_task_from_message", user |-> u, message |-> m,
                found |-> _find_task_from_message(m, u, tasks), changed |-> {}]
    /\ UNCHANGED <<tasks, next_id, pending>>

NextLocate == \E u \in UserIds, m \in LocateMessages : Idle /\ Locate(u, m)

SpecLocate == InitTable /\ [][NextLocate]_vars

-----------------------------------------------------------------------------
(***************************************************************************)
(* The same chat message processed twice.  The second call runs on the     *)
(* store the first call left, with the same reply of the text generation   *)
(* service; each call reads the clock on its own day.                      *)
(***************************************************************************)
Days == {NOW, NOW + 1}

TwiceMessages ==
    {"Create a task to write tests tomorrow", "Create a task to plan the release next week",
     "Create a task to write tests", "Delete all completed tasks",
     "Change task #1 priority to high", "What is my progress"}

TwiceReplies == {NoReply, Ok(ReplyCreate), Ok(ReplyBulkDelete), Ok(ReplyNotJson)}

Twice(u, m, reply, reply2, d1, d2) ==
    \E a \in {process_chat_message(m, u, tasks, reply, reply2, d1)} :
    \E b \in {process_chat_message(m, u, a.db, reply, reply2, d2)} :
        /\ tasks' = b.db
        /\ last' = [op |-> "process_chat_message twice", user |-> u, message |-> m,
                    reply |-> reply, reply2 |-> reply2, days |-> <<d1, d2>>,
                    first |-> a.result, second |-> b.result,
                    changed |-> Changed(tasks, b.db)]
        /\ UNCHANGED <<next_id, pending>>

NextTwice ==
    \E u \in UserIds, m \in TwiceMessages, reply \in TwiceReplies,
       reply2 \in {NoReply, Ok(ReplyTask)}, d1 \in Days, d2 \in Days :
        Idle /\ Twice(u, m, reply, reply2, d1, d2)

SpecTwice == InitTable /\ [][NextTwice]_vars

-----------------------------------------------------------------------------
(***************************************************************************)
(* An edit proposed in the chat and then confirmed: the client sends back  *)
(* the action and data of the proposal it holds.  The database does not    *)
(* fail here.                                                              *)
(***************************************************************************)
EditMessages ==
    {"Change task #1 priority to urgent", "Set task #2 priority to low",
     "Change task #1 priority to low and mark it done",
     "Change task #1 priority to urgent and description to login fails",
     "Change task #1 priority from low to urgent",
     "Change task #3 priority to high", "Change task #1 to high"}

ConfirmHeld ==
    /\ last.op = "chat_with_llama"
    /\ pending.user # NULL
    /\ Confirm(pending.user, pending.action, pending.data, "none")

NextEdit ==
    \/ \E u \in UserIds, m \in EditMessages, reply \in {NoReply, Ok(ReplyEdit)} :
            Idle /\ Chat(u, m, "available", reply, NoReply)
    \/ ConfirmHeld

SpecEdit == InitTable /\ [][NextEdit]_vars

-----------------------------------------------------------------------------
(***************************************************************************)
(* Analytics (app/services/analytics.py).  In the tables of this section a *)
(* completed_at is a number of hours since the start of day 0, which is a  *)
(* Thursday as the first day of the Unix epoch is; NULL is no timestamp.   *)
(***************************************************************************)
\* extract('hour', t)
HourOf(t) == t % 24

\* func.date(t)
DateOf(t) == t \div 24

\* extract('dow', t): 0 is Sunday
DowOf(t) == (DateOf(t) + 4) % 7

\* date.today()
Today == 9

RECURSIVE SumSeq(_)
SumSeq(s) == IF s = <<>> THEN 0 ELSE s[1] + SumSeq(Tail(s))

\* the user's rows with a completed_at, whatever their status
CompletedRowsAnyStatus(user_id, db) ==
    {i \in DOMAIN db : db[i].owner_id = user_id /\ db[i].completed_at # NULL}

\* the rows the two productivity queries count
CompletedRows(user_id, db) ==
    {i \in DOMAIN db : /\ db[i].owner_id = user_id
                       /\ db[i].status = "completed"
                       /\ db[i].completed_at # NULL}

\* round(completed / total * 100, 2) in hundredths of a percent; with the
\* totals of these tables no quotient lies halfway between two hundredths
CompletionRate(completed, total) ==
    IF total > 0 THEN (2 * completed * 10000 + total) \div (2 * total) ELSE 0

get_hourly_productivity(user_id, db) ==
    LET rows == CompletedRows(user_id, db)
        hours == {HourOf(db[i].completed_at) : i \in rows}
        hourly_data == [h \in hours |->
                           Cardinality({i \in rows : HourOf(db[i].completed_at) = h})]
        total_completed == Cardinality(rows)
    IN  [k \in 1..24 |->
            [hour |-> k - 1,
             tasks_completed |-> Get(hourly_data, k - 1, 0),
             completion_rate |->
                 CompletionRate(Get(hourly_data, k - 1, 0), total_completed)]]

day_names == <<"Monday", "Tuesday", "Wednesday", "Thursday", "Friday", "Saturday",
               "Sunday">>

get_weekly_productivity(user_id, db) ==
    LET rows == CompletedRows(user_id, db)
        dows == {DowOf(db[i].completed_at) : i \in rows}
        weekly_data == [d \in {(w + 6) % 7 : w \in dows} |->
                           Cardinality({i \in rows :
                                           (DowOf(db[i].completed_at) + 6) % 7 = d})]
        total_completed == Cardinality(rows)
    IN  [k \in 1..7 |->
            [day_of_week |-> day_names[k],
             day_number |-> k - 1,
             tasks_completed |-> Get(weekly_data, k - 1, 0),
             completion_rate |->
                 CompletionRate(Get(weekly_data, k - 1, 0), total_completed)]]

\* Tables of up to MaxAnalyticsRows rows; a row may be completed without a
\* completed_at and may keep a completed_at after leaving completed.
MaxAnalyticsRows == 2

Stamps == {73, 173, 205, 216, 239}

RECURSIVE Logged(_)
Logged(n) ==
    IF n = 0 THEN {EmptyDict}
    ELSE {Insert(db, n, [NewRow(n, u, "Fix login bug", "None", st, "medium", NULL)
                            EXCEPT !.completed_at = c]) :
            db \in Logged(n - 1), u \in UserIds, st \in {"todo", "completed"},
            c \in {NULL} \cup Stamps}

InitAnalytics ==
    /\ tasks \in UNION {Logged(n) : n \in 0..MaxAnalyticsRows}
    /\ next_id = Cardinality(DOMAIN tasks) + 1
    /\ pending = NoProposal
    /\ last = NoRequest

Hourly(u) ==
    /\ last' = [op |-> "get_hourly_productivity", user |-> u,
                result |-> get_hourly_productivity(u, tasks), changed |-> {}]
    /\ UNCHANGED <<tasks, next_id, pending>>

Weekly(u) ==
    /\ last' = [op |-> "get_weekly_productivity", user |-> u,
                result |-> get_weekly_productivity(u, tasks), changed |-> {}]
    /\ UNCHANGED <<tasks, next_id, pending>>

NextProductivity ==
    \/ \E u \in UserIds : Idle /\ Hourly(u)
    \/ \E u \in UserIds : Idle /\ Weekly(u)

SpecProductivity == InitAnalytics /\ [][NextProductivity]_vars

-----------------------------------------------------------------------------
(***************************************************************************)
(* The keyword search of _find_task_from_message over tables of up to      *)
(* MaxFound rows, more than the 5 rows the limited query returns.          *)
(***************************************************************************)
MaxFound == 6

FoundKinds == {<<1, "Fix login bug">>, <<1, "Write login report">>, <<2, "Fix login bug">>}

RECURSIVE Filed(_)
Filed(n) ==
    IF n = 0 THEN {EmptyDict}
    ELSE {Insert(db, n, NewRow(n, k[1], k[2], "None", "todo", "medium", NULL)) :
            db \in Filed(n - 1), k \in FoundKinds}

InitFiled ==
    /\ tasks \in UNION {Filed(n) : n \in 0..MaxFound}
    /\ next_id = Cardinality(DOMAIN tasks) + 1
    /\ pending = NoProposal
    /\ last = NoRequest

KeywordMessages == {"login bug", "the login", "Update the login report", "deploy", "to"}

FindByKeywords(u, m, page) ==
    /\ last' = [op |-> "_find_task_from_message", user |-> u, message |-> m,
                page |-> page,
                found |-> _find_task_from_message_page(m, u, tasks, page),
                changed |-> {}]
    /\ UNCHANGED <<tasks, next_id, pending>>

NextKeyword ==
    \E u \in UserIds, m \in KeywordMessages :
    \E page \in Pages(KeywordMatches(_extract_keywords_from_message(m), u, tasks)) :
        Idle /\ FindByKeywords(u, m, page)

SpecKeyword == InitFiled /\ [][NextKeyword]_vars

-----------------------------------------------------------------------------
(***************************************************************************)
(* process_chat_message step by step: each call of _call_ollama is a step  *)
(* of its own and is written to the list calls of the request.             *)
(***************************************************************************)
PipelineMessages ==
    {"Create a task to write tests", "Delete all completed tasks", "hello there"}

PipelineReplies == OllamaFailures \cup {Ok(ReplyCreate), Ok(ReplyEdit), Ok(ReplyNotJson)}

PipelineReplies2 == OllamaFailures \cup {Ok(ReplyTask), Ok(ReplyNotJson)}

\* a classification that calls the service again after a failed call
AfterClassificationRetry(reply, intent) ==
    IF reply.status # "ok" THEN "classify"
    ELSE IF Get(intent, "action", "None") = "create_task" THEN "parse"
    ELSE "done"

\* Where process_chat_message stands once _classify_intent has returned:
\* only _handle_create_task goes on to parse_natural_language_task.
AfterClassification(reply, intent) ==
    IF Get(intent, "action", "None") = "create_task" THEN "parse" ELSE "done"

PipelineStart(u, m) ==
    /\ last' = [op |-> "process_chat_message", pc |-> "classify", user |-> u,
                message |-> m, calls |-> <<>>, changed |-> {}]
    /\ UNCHANGED <<tasks, next_id, pending>>

\* _classify_intent: one call, then the reply's JSON or the fallback; every
\* handler but _handle_create_task answers without another call
ClassifyCall(reply) ==
    /\ last.op = "process_chat_message"
    /\ last.pc = "classify"
    /\ \E intent \in {_classify_intent(last.message, last.user, tasks, reply)} :
       \E pc \in {AfterClassification(reply, intent)} :
         last' = [op |-> "process_chat_message", pc |-> pc, user |-> last.user,
                  message |-> last.message,
                  calls |-> Append(last.calls, [phase |-> "classification",
                                                status |-> reply.status]),
                  intent |-> intent,
                  result |-> IF pc = "done"
                             THEN Processed(intent, last.message, last.user, tasks,
                                            NoReply, NOW).result
                             ELSE Ret(EmptyDict),
                  changed |-> {}]
    /\ UNCHANGED <<tasks, next_id, pending>>

\* parse_natural_language_task: one call, then the reply's JSON or the fallback
ParseCall(reply2) ==
    /\ last.op = "process_chat_message"
    /\ last.pc = "parse"
    /\ last' = [last EXCEPT
                  !.pc = "done",
                  !.calls = Append(@, [phase |-> "parsing", status |-> reply2.status]),
                  !.result = Processed(last.intent, last.message, last.user, tasks,
                                       reply2, NOW).result]
    /\ UNCHANGED <<tasks, next_id, pending>>

NextPipeline ==
    \/ \E u \in UserIds, m \in PipelineMessages : Idle /\ PipelineStart(u, m)
    \/ \E reply \in PipelineReplies : ClassifyCall(reply)
    \/ \E reply2 \in PipelineReplies2 : ParseCall(reply2)

SpecPipeline == InitTable /\ [][NextPipeline]_vars

-----------------------------------------------------------------------------
(***************************************************************************)
(* The extraction functions applied to messages put together from a        *)
(* beginning and up to two phrases.                                        *)
(***************************************************************************)
StatusPhrases ==
    {"", "todo", "to do", "pending", "in progress", "progress", "working", "active",
     "in review", "review", "reviewing", "completed", "done", "finished", "complete",
     "DONE", "In Review", "To Do"}

StatusMessages ==
    {b \o p \o " " \o q : b \in {"Move it ", "Set it to "}, p \in StatusPhrases,
                          q \in StatusPhrases}

ExtractStatus(m) ==
    /\ last' = [op |-> "_extract_status_from_message", message |-> m, user |-> NULL,
                status |-> _extract_status_from_message(m), changed |-> {}]
    /\ UNCHANGED <<tasks, next_id, pending>>

NextStatus == \E m \in StatusMessages : Idle /\ ExtractStatus(m)

SpecStatus == Init /\ [][NextStatus]_vars

ClassifyPhrases ==
    {"", "create", "new task", "change", "modify", "delete", "cancel", "Remove",
     "move", "shift", "assign", "give to", "show", "list", "status", "summary",
     "help", "what can you do", "HELP"}

ClassifyMessages ==
    {"Please " \o p \o " " \o q : p \in ClassifyPhrases, q \in ClassifyPhrases}

FallbackClassify(m) ==
    /\ last' = [op |-> "_fallback_classify", message |-> m, user |-> NULL,
                intent |-> _fallback_classify(m), changed |-> {}]
    /\ UNCHANGED <<tasks, next_id, pending>>

NextClassify == \E m \in ClassifyMessages : Idle /\ FallbackClassify(m)

SpecClassify == Init /\ [][NextClassify]_vars

\* Messages of up to MaxWords words separated by single spaces
MaxWords == 4

WordTokens == {"login", "it,", "the", "!!!", "Bug.", "to"}

RECURSIVE Joined(_)
Joined(words) ==
    IF Len(words) = 0 THEN ""
    ELSE IF Len(words) = 1 THEN words[1]
    ELSE words[1] \o " " \o Joined(Tail(words))

WordLists == UNION {[1..n -> WordTokens] : n \in 0..MaxWords}

ExtractKeywords(words) ==
    /\ last' = [op |-> "_extract_keywords_from_message", message |-> Joined(words),
                words |-> words, user |-> NULL,
                keywords |-> _extract_keywords_from_message(Joined(words)),
                changed |-> {}]
    /\ UNCHANGED <<tasks, next_id, pending>>

NextWords == \E words \in WordLists : Idle /\ ExtractKeywords(words)

SpecWords == Init /\ [][NextWords]_vars

-----------------------------------------------------------------------------
(***************************************************************************)
(* move_task as the two steps of its session: the queries, which load the  *)
(* task and the other tasks of the column, and db.commit(), which writes   *)
(* every attribute whose value differs from the loaded one (the session is *)
(* made with autoflush=False, so nothing is written before).  Requests in  *)
(* flight are kept in last.flight, in the order of their queries.          *)
(***************************************************************************)
MaxCards == 3

\* Boards of up to MaxCards cards in two columns; the last card of a full
\* board may belong to the other user.  Positions may repeat.
RECURSIVE Boards(_)
Boards(n) ==
    IF n = 0 THEN {EmptyDict}
    ELSE {Insert(db, n, [NewRow(n, u, "Fix login bug", "None", st, "medium", NULL)
                            EXCEPT !.board_position = pos]) :
            db \in Boards(n - 1), st \in {"todo", "in_progress"}, pos \in 0..1,
            u \in IF n = MaxCards THEN UserIds ELSE {1}}

InitBoard ==
    /\ tasks \in UNION {Boards(n) : n \in 1..MaxCards}
    /\ next_id = Cardinality(DOMAIN tasks) + 1
    /\ pending = NoProposal
    /\ last = NoRequest

\* the orders in which a query without ORDER BY may return the rows ids
Orders(ids) ==
    {order \in [1..Cardinality(ids) -> ids] :
        \A j, k \in 1..Cardinality(ids) : j # k => order[j] # order[k]}

\* the session after the two queries and the loop of move_task
Loaded(task_id, new_status, new_position, user_id, db, other_tasks) ==
    [user |-> user_id, task_id |-> task_id, new_status |-> new_status,
     new_position |-> new_position, pc |-> "loaded",
     status |-> db[task_id].status,
     position |-> [i \in {task_id} \cup Elems(other_tasks) |-> db[i].board_position],
     set |-> [i \in {task_id} \cup Elems(other_tasks) |->
                IF i = task_id THEN new_position
                ELSE Reindexed((CHOOSE j \in 1..Len(other_tasks) : other_tasks[j] = i) - 1,
                               new_position)]]

\* db.commit(): the UPDATEs of the attributes the session changed
Committed(s, db) ==
    [i \in DOMAIN db |->
        IF i \notin DOMAIN s.set THEN db[i]
        ELSE [db[i] EXCEPT
                !.status = IF i = s.task_id /\ s.new_status # s.status
                           THEN s.new_status ELSE @,
                !.board_position = IF s.set[i] # s.position[i] THEN s.set[i] ELSE @]]

InFlight == IF last.op = "move_task" THEN last.flight ELSE <<>>

\* lines 278-303
MoveQueries(u, id, new_status, new_position) ==
    /\ OwnedTask(tasks, id, u) # NULL
    /\ \E other_tasks \in Orders({i \in OwnedIds(tasks, u) :
                                    tasks[i].status = new_status /\ i # id}) :
         last' = [op |-> "move_task", user |-> u, changed |-> {},
                  flight |-> Append(InFlight,
                                    Loaded(id, new_status, new_position, u, tasks,
                                           other_tasks))]
    /\ UNCHANGED <<tasks, next_id, pending>>

\* line 305
MoveCommit(r) ==
    /\ r \in DOMAIN InFlight
    /\ last.flight[r].pc = "loaded"
    /\ tasks' = Committed(last.flight[r], tasks)
    /\ last' = [last EXCEPT !.flight[r].pc = "committed",
                            !.changed = @ \cup Changed(tasks, tasks')]
    /\ UNCHANGED <<next_id, pending>>

Positions == {-1, 0, 1, MaxCards + 1}

\* one request at a time
NextBoard ==
    \/ \E u \in UserIds, i \in 1..MaxCards, st \in {"todo", "in_progress"},
          pos \in Positions :
            Idle /\ MoveQueries(u, i, st, pos)
    \/ MoveCommit(1)

SpecBoard == InitBoard /\ [][NextBoard]_vars

\* Two requests of user 1 into the column in_progress, the second making its
\* queries before the first commits
NextRace ==
    \/ \E i \in 1..MaxCards, pos \in 0..1 :
            Idle /\ MoveQueries(1, i, "in_progress", pos)
    \/ \E i \in 1..MaxCards, pos \in 0..1 :
            /\ Len(InFlight) = 1
            /\ last.flight[1].pc = "loaded"
            /\ MoveQueries(1, i, "in_progress", pos)
    \/ \E r \in 1..2 : MoveCommit(r)

SpecRace == InitBoard /\ [][NextRace]_vars

-----------------------------------------------------------------------------
(***************************************************************************)
(* The completion streak (analytics.py), the loop of                       *)
(* _calculate_current_streak one iteration at a step, over the tables of   *)
(* InitAnalytics.  A created_at of those tables is an hour of day 0.       *)
(***************************************************************************)
\* _get_date_range_stats counting the tasks of every status
_get_date_range_stats_any_status(user_id, start_date, end_date, db) ==
    LET completed == Cardinality({i \in DOMAIN db :
                        /\ db[i].owner_id = user_id
                        /\ db[i].completed_at # NULL
                        /\ DateOf(db[i].completed_at) >= start_date
                        /\ DateOf(db[i].completed_at) <= end_date})
        created == Cardinality({i \in DOMAIN db :
                        /\ db[i].owner_id = user_id
                        /\ DateOf(db[i].created_at) >= start_date
                        /\ DateOf(db[i].created_at) <= end_date})
    IN  [completed |-> completed, created |-> created,
         completion_rate |-> CompletionRate(completed, created)]

\* func.date(NULL) compares as NULL, so a row without completed_at is not
\* counted
_get_date_range_stats(user_id, start_date, end_date, db) ==
    LET completed == Cardinality({i \in DOMAIN db :
                        /\ db[i].owner_id = user_id
                        /\ db[i].status = "completed"
                        /\ db[i].completed_at # NULL
                        /\ DateOf(db[i].completed_at) >= start_date
                        /\ DateOf(db[i].completed_at) <= end_date})
        created == Cardinality({i \in DOMAIN db :
                        /\ db[i].owner_id = user_id
                        /\ DateOf(db[i].created_at) >= start_date
                        /\ DateOf(db[i].created_at) <= end_date})
    IN  [completed |-> completed, created |-> created,
         completion_rate |-> CompletionRate(completed, created)]

\* lines 222-223
StreakStart(u) ==
    /\ last' = [op |-> "_calculate_current_streak", user |-> u, pc |-> "while",
                current_date |-> Today, streak |-> 0, changed |-> {}]
    /\ UNCHANGED <<tasks, next_id, pending>>

\* one iteration of the while loop, lines 225-231
StreakStep ==
    /\ last.op = "_calculate_current_streak"
    /\ last.pc = "while"
    /\ \E daily_stats \in {_get_date_range_stats(last.user, last.current_date,
                                                 last.current_date, tasks)} :
         last' = IF daily_stats.completed > 0
                 THEN [last EXCEPT !.streak = @ + 1, !.current_date = @ - 1]
                 ELSE [last EXCEPT !.pc = "return"]
    /\ UNCHANGED <<tasks, next_id, pending>>

NextStreak ==
    \/ \E u \in UserIds : Idle /\ StreakStart(u)
    \/ StreakStep

\* the loop, once called, keeps running
SpecStreak == InitAnalytics /\ [][NextStreak]_vars /\ WF_vars(StreakStep)

-----------------------------------------------------------------------------
(***************************************************************************)
(* One chat message processed on two stores that hold the same tasks of    *)
(* the caller and differ in the tasks of the other user.                   *)
(***************************************************************************)
PairMessages ==
    {"Delete task #2", "Change task #1 priority to high", "Show my high priority tasks",
     "Delete all completed tasks", "What is my progress", "Move the login bug to done",
     "Assign task #1 to bob", "hello there"}

PairReplies == {NoReply, Ok(ReplyBulkDelete), Ok(ReplyDelete)}

\* the rows of user_id, by id
RowsOf(db, user_id) == [i \in OwnedIds(db, user_id) |-> db[i]]

ProcessOnBoth(u, m, reply, other) ==
    /\ RowsOf(other, u) = RowsOf(tasks, u)
    /\ \E a \in {process_chat_message(m, u, tasks, reply, NoReply, NOW)} :
       \E b \in {process_chat_message(m, u, other, reply, NoReply, NOW)} :
         last' = [op |-> "process_chat_message on two stores", user |-> u,
                  message |-> m, reply |-> reply, other |-> other,
                  first |-> a.result, second |-> b.result,
                  changed |-> Changed(tasks, a.db)]
    /\ UNCHANGED <<tasks, next_id, pending>>

NextPair ==
    \E u \in UserIds, m \in PairMessages, reply \in PairReplies, other \in Tables :
        Idle /\ ProcessOnBoth(u, m, reply, other)

SpecPair == InitTable /\ [][NextPair]_vars

-----------------------------------------------------------------------------
(* The claims *)

ChatOps == {"chat_with_llama", "bulk_operation_with_ai"}

DirectOps == {"create_task_from_natural_language", "smart_update_task",
              "move_task_with_ai", "assign_task_with_ai"}

AssistantOps == ChatOps \cup DirectOps \cup {"confirm_ai_action"}

\* the request just served called process_chat_message
PcmCalled == last.op \in ChatOps /\ Len(last.pcm) = 1

\* C1: in every reachable state each task has completed_at set if and only
\* if its status is completed.
C1_CompletedAtIffCompleted ==
    \A i \in DOMAIN tasks :
        (tasks[i].completed_at # NULL) <=> (tasks[i].status = "completed")

\* C2, as claimed: an assistant request changes the table only when it is a
\* confirmation of the proposal the client holds.
C2_OnlyConfirmedProposalsMutate ==
    [][(last'.op \in AssistantOps /\ tasks' # tasks)
          => (last'.op = "confirm_ai_action" /\ last'.proposed)]_vars

\* C2, amended: an assistant request changes the table only by running an
\* executor method, in confirm_ai_action (whatever the payload, proposed or
\* not) or in one of the four direct endpoints; the chat requests change
\* nothing.
C2_AssistantMutatesOnlyThroughExecutor ==
    [][(last'.op \in AssistantOps /\ tasks' # tasks)
          => /\ last'.op \in DirectOps \cup {"confirm_ai_action"}
             /\ last'.ran # "None"]_vars

\* A task was changed by a direct endpoint although no proposal was ever
\* returned.
C2_Witness ==
    /\ last.op = "move_task_with_ai"
    /\ last.changed # {}
    /\ pending = NoProposal

\* C3: a request that calls process_chat_message leaves every row of the
\* table as it was, whatever the message and the classified intent.
C3_ProposerLeavesStoreUnchanged == PcmCalled => last.changed = {}

\* process_chat_message proposed to delete both rows, and both are still
\* there.
C3_Witness ==
    /\ PcmCalled
    /\ ~last.pcm[1].result.raised
    /\ last.pcm[1].result.value["action"] = "bulk_operation"
    /\ last.pcm[1].result.value["data"]["task_ids"] = <<1, 2>>
    /\ DOMAIN tasks = {1, 2}

\* C4: a request of user u, an executor method with any payload or a CRUD
\* endpoint, leaves every task of another owner as it was, and every task it
\* creates is owned by u.
C4_OwnerIsolation ==
    [][/\ \A i \in DOMAIN tasks :
            tasks[i].owner_id # last'.user => (i \in DOMAIN tasks' /\ tasks'[i] = tasks[i])
       /\ \A i \in DOMAIN tasks' \ DOMAIN tasks : tasks'[i].owner_id = last'.user]_vars

\* User 1 confirmed the deletion of tasks 1 and 2; task 1 was deleted and
\* task 2, which user 2 owns, is still there.
C4_Witness ==
    /\ last.op = "confirm_ai_action"
    /\ last.user = 1
    /\ last.action = "bulk_operation"
    /\ last.data = [operation |-> "delete", task_ids |-> <<1, 2>>]
    /\ last.changed = {1}
    /\ 2 \in DOMAIN tasks
    /\ tasks[2].owner_id = 2

\* the request just served ran execute_bulk_operation to its result
BulkRan(l) ==
    /\ l.op = "confirm_ai_action"
    /\ l.ran = "execute_bulk_operation"
    /\ l.data["operation"] \in {"delete", "complete"}

\* the tasks listed in task_ids that user_id owns in db
Listed(db, task_ids, user_id) ==
    {i \in DOMAIN db : db[i].owner_id = user_id /\ \E j \in 1..Len(task_ids) : task_ids[j] = i}

\* C5: execute_bulk_operation with delete removes exactly the tasks listed
\* in task_ids that the caller owns, with complete it completes exactly
\* those, and it leaves every other task as it was; a call that fails
\* changes nothing.
C5_BulkAffectsExactlyListedOwned ==
    [][BulkRan(last') =>
        LET ids == Listed(tasks, last'.data["task_ids"], last'.user)
        IN  IF ~last'.result.value["success"] THEN tasks' = tasks
            ELSE IF last'.data["operation"] = "delete"
            THEN tasks' = [i \in DOMAIN tasks \ ids |-> tasks[i]]
            ELSE tasks' = [i \in DOMAIN tasks |->
                            IF i \in ids
                            THEN [tasks[i] EXCEPT !.status = "completed",
                                                  !.completed_at = NOW]
                            ELSE tasks[i]]]_vars

\* User 1, who owns tasks 1 and 2, confirmed the completion of task 2 only:
\* task 2 is completed and task 1 is not.
C5_Witness ==
    /\ last.op = "confirm_ai_action"
    /\ last.user = 1
    /\ last.action = "bulk_operation"
    /\ last.data = [operation |-> "complete", task_ids |-> <<2>>]
    /\ last.result.value["success"]
    /\ last.changed = {2}
    /\ DOMAIN tasks = {1, 2}
    /\ tasks[1].owner_id = 1
    /\ tasks[1].status # "completed"
    /\ tasks[2].status = "completed"

\* C6: the confirmation of a bulk proposal applies the operation to every
\* task of the list captured at proposal time that the caller still owns,
\* whether or not the task still passes the filter of the proposal.
C6_ConfirmationActsOnCapturedIds ==
    [][(BulkRan(last') /\ last'.proposed) =>
        \A i \in Listed(tasks, last'.data["task_ids"], last'.user) :
            IF last'.data["operation"] = "delete" THEN i \notin DOMAIN tasks'
            ELSE /\ i \in DOMAIN tasks'
                 /\ tasks'[i].status = "completed"
                 /\ tasks'[i].completed_at = NOW]_vars

\* The confirmation of a bulk proposal has deleted or completed a task that
\* had stopped passing the filter of the proposal.
C6_Witness ==
    /\ last.op = "confirm_ai_action"
    /\ last.proposed
    /\ last.action = "bulk_operation"
    /\ last.result.value["success"]
    /\ last.stale # {}
    /\ last.stale \subseteq last.changed

\* the executor method of the request just served caught an exception of
\* the database
PersistenceFailed ==
    /\ last.op = "confirm_ai_action"
    /\ last.ran # "None"
    /\ Contains(last.result.value["message"], "Failed to ")

\* C7: when persistence fails during an executor operation, the table is
\* left as it was before the operation and the operation returns
\* success=false.
C7_FailureLeavesStoreUnchanged ==
    PersistenceFailed => (last.changed = {} /\ ~last.result.value["success"])

\* C8: process_chat_message returns a response object for every message,
\* reply and table; it raises nothing to its caller.  (The executor methods
\* catch every exception and return a result.)
C8_ProposerNeverRaises == PcmCalled => ~last.pcm[1].result.raised

\* C9: _classify_intent returns an Intent whose action is one of the ten
\* ActionKind values and whose confidence lies in [0,1], for every reply.
C9_IntentWellFormed ==
    PcmCalled =>
        /\ "action" \in DOMAIN last.pcm[1].intent
        /\ last.pcm[1].intent["action"] \in ActionKinds
        /\ "confidence" \in DOMAIN last.pcm[1].intent
        /\ last.pcm[1].intent["confidence"] \in 0..10

\* The call failed, or the reply has no brace-delimited span, or the span
\* does not decode as JSON.
Unusable(reply) ==
    \/ reply.status # "ok"
    \/ JsonSpan(Strip(reply.response)) = ""
    \/ JsonLoads(JsonSpan(Strip(reply.response))).raised

\* C10: when the call fails, or the reply has no brace-delimited span, or the
\* span does not decode, _classify_intent returns exactly what the keyword
\* classifier returns for the message.
C10_UnusableReplyGivesFallback ==
    (PcmCalled /\ Unusable(last.reply)) =>
        last.pcm[1].intent = _fallback_classify(last.message)

\* The reply had braces but was not JSON, and the intent is the keyword
\* classifier's delete_task.
C10_Witness ==
    /\ PcmCalled
    /\ last.reply = Ok(ReplyNotJson)
    /\ last.message = "Delete all completed tasks"
    /\ last.pcm[1].intent = [action |-> "delete_task", confidence |-> 6, data |-> EmptyDict]

\* C11: a chat request served while the text-generation service is
\* unreachable or failing (its status check reports it unavailable, or the
\* generation call fails) is answered, not refused, and the answer is the
\* one the handler of the keyword fallback intent gives.
C11_ChatAnsweredByFallback ==
    (/\ last.op = "chat_with_llama"
     /\ (last.health # "available" \/ last.reply.status # "ok"))
        => /\ ~last.result.raised
           /\ PcmCalled
           /\ last.pcm[1].intent = _fallback_classify(last.message)

\* a confirmation ran execute_task_move and it returned success
MoveSucceeded ==
    /\ last.op = "confirm_ai_action"
    /\ last.ran = "execute_task_move"
    /\ last.result.value["success"]

\* C12: after a successful execute_task_move of an owned task to status s the
\* task has status s, and completed_at is set if s is completed and null if
\* s is any other status, whatever the row held before.
C12_MoveSetsCompletedAt ==
    MoveSucceeded =>
        LET i == last.data["task_id"]
            s == last.data["new_status"]
        IN  /\ i \in DOMAIN tasks
            /\ tasks[i].owner_id = last.user
            /\ tasks[i].status = s
            /\ (s = "completed") => tasks[i].completed_at # NULL
            /\ (s # "completed") => tasks[i].completed_at = NULL

\* A task that was in progress with completed_at set (completed, then sent
\* back by a rejecting review) was moved to in_progress: the only field the
\* move changed is completed_at, now null.
C12_Witness ==
    /\ MoveSucceeded
    /\ last.result.value["message"]
            = "Task 'Fix login bug' moved from in_progress to in_progress!"
    /\ last.changed = {1}
    /\ tasks[1].completed_at = NULL

\* a confirmation called execute_bulk_operation with an operation name other
\* than delete and complete
OtherBulkRan ==
    /\ last.op = "confirm_ai_action"
    /\ last.ran = "execute_bulk_operation"
    /\ last.data["operation"] \notin {"delete", "complete"}

\* C13: execute_bulk_operation called with an operation name other than
\* delete and complete returns a failure result and leaves every task as it
\* was.
C13_OtherOperationRejected ==
    OtherBulkRan => (~last.result.value["success"] /\ last.changed = {})

\* The operation archive was refused although the caller owns both tasks
\* listed and the database did not fail.
C13_Witness ==
    /\ OtherBulkRan
    /\ last.fault = "none"
    /\ last.data["task_ids"] = <<1, 2>>
    /\ \A i \in {1, 2} : i \in DOMAIN tasks /\ tasks[i].owner_id = last.user
    /\ last.result.value["message"] = "Unsupported bulk operation: archive"

\* the payload of an executor call names a status, a priority or a bulk
\* operation that is not one of the recognized values
Unrecognized(action, data) ==
    \/ /\ action = "create_task"
       /\ \/ Get(data, "status", "todo") \notin TaskStatusValues
          \/ Get(data, "priority", "medium") \notin TaskPriorityValues
    \/ /\ action = "edit_task"
       /\ \/ Get(data["changes"], "status", "todo") \notin TaskStatusValues
          \/ Get(data["changes"], "priority", "medium") \notin TaskPriorityValues
    \/ action = "move_task" /\ data["new_status"] \notin TaskStatusValues
    \/ action = "bulk_operation" /\ data["operation"] \notin {"delete", "complete"}

\* C14: an executor call whose payload names an unrecognized status,
\* priority or bulk operation returns a rejection (success = false) and
\* changes no task.
C14_UnrecognizedValueRejected ==
    (/\ last.op = "confirm_ai_action"
     /\ last.ran # "None"
     /\ Unrecognized(last.action, last.data))
        => (~last.result.value["success"] /\ last.changed = {})

SingleTaskActions == {"edit_task", "move_task", "assign_task", "delete_task"}

\* the id a message names with #<digits> or task <digits>, NULL if it names
\* none
Referenced(message) ==
    IF IdMatch(message) = "" THEN NULL ELSE ParseInt(IdMatch(message))

\* The chat request l was dispatched to the handler of a single-task action,
\* and in the table db the task its message names by id does not exist for
\* the caller or, for an assignment, the message names no user.
HandlerTargetMissing(l, db) ==
    /\ l.op = "chat_with_llama"
    /\ Len(l.pcm) = 1
    /\ ~l.pcm[1].result.raised
    /\ Get(l.pcm[1].intent, "action", "None") \in SingleTaskActions
    /\ Referenced(l.message) # NULL
    /\ \/ OwnedTask(db, Referenced(l.message), l.user) = NULL
       \/ /\ l.pcm[1].intent["action"] = "assign_task"
          /\ _extract_assignee_from_message(l.message) = NULL

\* The confirmation l ran the executor method of a single-task action, and
\* in the table db the task of the payload does not exist for the caller or,
\* for an assignment, the assignee is no user.
ExecutorTargetMissing(l, db) ==
    /\ l.op = "confirm_ai_action"
    /\ l.action \in SingleTaskActions
    /\ l.ran # "None"
    /\ \/ OwnedTask(db, l.data["task_id"], l.user) = NULL
       \/ l.action = "assign_task" /\ l.data["assignee_id"] \notin UserIds

\* C15: when the task referenced does not exist for the caller (or, for an
\* assignment, the assignee does not exist), a proposer handler returns a
\* message without confirmation_needed, the executor methods edit, move,
\* assign and delete return success = false, and the table is unchanged.
C15_MissingTargetChangesNothing ==
    [][/\ HandlerTargetMissing(last', tasks)
            => /\ "message" \in DOMAIN last'.pcm[1].result.value
               /\ ~Get(last'.pcm[1].result.value, "confirmation_needed", FALSE)
               /\ tasks' = tasks
       /\ ExecutorTargetMissing(last', tasks)
            => /\ ~last'.result.value["success"]
               /\ tasks' = tasks]_vars

\* The caller owns task 1, the database did not fail, and the assignment to
\* user 9, who does not exist, was refused.
C15_Witness ==
    /\ ExecutorTargetMissing(last, tasks)
    /\ last.action = "assign_task"
    /\ last.fault = "none"
    /\ OwnedTask(tasks, last.data["task_id"], last.user) # NULL
    /\ last.result.value["message"] = "Assignee not found"

\* The id each message of LocateMessages names by its first #<digits> or
\* task <digits>, NULL for the message that names none.
NamedId(message) ==
    CASE message = "login bug #3" -> 3
      [] message = "login bug #1" -> 1
      [] message = "login bug task 2" -> 2
      [] message = "TASK  1 login report" -> 1
      [] message = "login #2 #1" -> 2
      [] message = "#9 login" -> 9
      [] OTHER -> NULL

\* C16: for a message that names a task by #<digits> or task <digits>,
\* _find_task_from_message returns the task with that id if the caller owns
\* one and null otherwise, also when the keywords of the message match a
\* task of the caller.
C16_ExplicitIdDecides ==
    (last.op = "_find_task_from_message" /\ NamedId(last.message) # NULL)
        => last.found = IF /\ NamedId(last.message) \in DOMAIN tasks
                           /\ tasks[NamedId(last.message)].owner_id = last.user
                        THEN NamedId(last.message) ELSE NULL

\* The caller owns task 1, whose title holds both keywords of the message,
\* and the message names task 3, which does not exist: null is returned.
C16_Witness ==
    /\ last.op = "_find_task_from_message"
    /\ last.message = "login bug #3"
    /\ 1 \in DOMAIN tasks
    /\ tasks[1].owner_id = last.user
    /\ tasks[1].title = "Fix login bug"
    /\ 3 \notin DOMAIN tasks
    /\ last.found = NULL

\* the chat request just served was answered with a bulk_operation proposal
BulkProposed ==
    /\ PcmCalled
    /\ ~last.pcm[1].result.raised
    /\ last.pcm[1].result.value["action"] = "bulk_operation"

\* the caller's tasks that have the status and the priority, if any, that
\* _extract_filters_from_message finds in the message of the request
Filtered ==
    LET filters == _extract_filters_from_message(last.message)
    IN  {i \in DOMAIN tasks :
            /\ tasks[i].owner_id = last.user
            /\ "status" \in DOMAIN filters => tasks[i].status = filters["status"]
            /\ "priority" \in DOMAIN filters => tasks[i].priority = filters["priority"]}

\* C17: in a bulk_operation proposal data.task_ids lists, each once, exactly
\* the caller's tasks that match the status and priority filter of the
\* message, and data.task_count is their number.
C17_BulkProposalListsFiltered ==
    BulkProposed =>
        LET data == last.pcm[1].result.value["data"]
        IN  /\ Elems(data["task_ids"]) = Filtered
            /\ Len(data["task_ids"]) = Cardinality(Filtered)
            /\ data["task_count"] = Cardinality(Filtered)

\* The caller owns tasks 1 and 2 and asks for the high priority ones: only
\* task 1 is listed.
C17_Witness ==
    /\ BulkProposed
    /\ last.message = "Show my high priority tasks"
    /\ \A i \in {1, 2} : i \in DOMAIN tasks /\ tasks[i].owner_id = last.user
    /\ last.pcm[1].result.value["data"]["task_ids"] = <<1>>
    /\ last.pcm[1].result.value["data"]["task_count"] = 1

\* the actions a response proposes for confirmation
ProposedActions ==
    {"create_task", "edit_task", "move_task", "delete_task", "assign_task",
     "bulk_operation"}

\* the intents answered at once
AnsweredIntents == {"query_tasks", "status_request", "help", "general"}

\* C18: a response of process_chat_message whose action is create_task,
\* edit_task, move_task, delete_task, assign_task or bulk_operation has
\* confirmation_needed = true, and a response to the intents query_tasks,
\* status_request, help and general is a message without
\* confirmation_needed.
C18_ProposalsAskConfirmation ==
    (PcmCalled /\ ~last.pcm[1].result.raised) =>
        LET response == last.pcm[1].result.value
        IN  /\ response["action"] \in ProposedActions
                => /\ "confirmation_needed" \in DOMAIN response
                   /\ response["confirmation_needed"] = TRUE
            /\ last.pcm[1].intent["action"] \in AnsweredIntents
                => /\ "confirmation_needed" \notin DOMAIN response
                   /\ "message" \in DOMAIN response
                   /\ response["action"] \notin ProposedActions

\* The deletion of task 1 of the caller was proposed, with
\* confirmation_needed.
C18_Witness ==
    /\ PcmCalled
    /\ ~last.pcm[1].result.raised
    /\ last.pcm[1].result.value["action"] = "delete_task"
    /\ last.pcm[1].result.value["data"]["task_id"] = 1
    /\ last.pcm[1].result.value["confirmation_needed"]
    /\ tasks[1].owner_id = last.user

TwiceRan == last.op = "process_chat_message twice"

EditNamedId(message) ==
    IF Contains(message, "#1") THEN 1
    ELSE IF Contains(message, "#2") THEN 2
    ELSE IF Contains(message, "#3") THEN 3
    ELSE NULL

PriorityNamesIn(message) == {p \in TaskPriorityValues : Contains(Lower(message), p)}

StatusKeywords ==
    {"todo", "to do", "pending", "in progress", "progress", "working", "active",
     "in review", "review", "reviewing", "completed", "done", "finished", "complete"}

\* The message names a task the caller owns by #id and contains the word
\* "priority" and a priority name.
PriorityEditNamed(message, user_id, db) ==
    /\ EditNamedId(message) \in DOMAIN db
    /\ db[EditNamedId(message)].owner_id = user_id
    /\ Contains(Lower(message), "priority")
    /\ PriorityNamesIn(message) # {}

\* ... and neither a status keyword nor the word "description"
PriorityOnlyEditNamed(message, user_id, db) ==
    /\ PriorityEditNamed(message, user_id, db)
    /\ \A k \in StatusKeywords : ~Contains(Lower(message), k)
    /\ ~Contains(Lower(message), "description")

\* the first of urgent, high, medium, low that the message contains
FirstNamed(message) ==
    LET order == <<"urgent", "high", "medium", "low">>
        i == CHOOSE j \in 1..4 :
                /\ order[j] \in PriorityNamesIn(message)
                /\ \A k \in 1..(j - 1) : order[k] \notin PriorityNamesIn(message)
    IN  order[i]

\* the chat classified the message as edit_task
EditIntent(l) ==
    /\ l.op = "chat_with_llama"
    /\ Len(l.pcm) = 1
    /\ Get(l.pcm[1].intent, "action", "None") = "edit_task"

\* the response proposes the edit of task id with priority p
ProposalCarries(result, id, p) ==
    /\ ~result.raised
    /\ result.value["action"] = "edit_task"
    /\ result.value["data"]["task_id"] = id
    /\ Get(result.value["data"]["changes"], "priority", "None") = p
    /\ Get(result.value, "confirmation_needed", FALSE)

\* the step executes the edit proposal the client holds
HeldEditConfirmed ==
    /\ last.op = "chat_with_llama"
    /\ pending.user # NULL
    /\ pending.action = "edit_task"
    /\ last'.op = "confirm_ai_action"

\* the step set the priority of task id to p and kept its other fields
PriorityEdited(id, p) ==
    /\ ~last'.result.raised
    /\ last'.result.value["success"]
    /\ id \in DOMAIN tasks'
    /\ tasks'[id].priority = p
    /\ tasks'[id].title = tasks[id].title
    /\ tasks'[id].description = tasks[id].description
    /\ tasks'[id].status = tasks[id].status
    /\ tasks'[id].assigned_to_id = tasks[id].assigned_to_id

\* C20 as stated: for an edit_task intent on a message that names a task the
\* caller owns by #id and contains "priority" with a priority name p, the
\* proposal carries that task id, priority p and confirmation_needed, and
\* executing it sets the priority to p, keeps title, description, status and
\* assignee, and succeeds.
C20_PriorityEditApplied ==
    [][/\ EditIntent(last') /\ PriorityEditNamed(last'.message, last'.user, tasks)
            => \A p \in PriorityNamesIn(last'.message) :
                    ProposalCarries(last'.pcm[1].result, EditNamedId(last'.message), p)
       /\ HeldEditConfirmed /\ PriorityEditNamed(pending.message, pending.user, tasks)
            => \A p \in PriorityNamesIn(pending.message) :
                    PriorityEdited(EditNamedId(pending.message), p)]_vars

\* C20: when the message moreover contains neither a status keyword nor the
\* word "description", the proposal carries that task id, confirmation_needed
\* and as priority the first of urgent, high, medium, low in the message, and
\* executing it sets the priority to that name, keeps title, description,
\* status and assignee, and succeeds.
C20_PriorityOnlyEditApplied ==
    [][/\ EditIntent(last') /\ PriorityOnlyEditNamed(last'.message, last'.user, tasks)
            => ProposalCarries(last'.pcm[1].result, EditNamedId(last'.message),
                               FirstNamed(last'.message))
       /\ HeldEditConfirmed /\ PriorityOnlyEditNamed(pending.message, pending.user, tasks)
            => PriorityEdited(EditNamedId(pending.message),
                              FirstNamed(pending.message))]_vars

\* The proposal for "Change task #1 priority to urgent" was confirmed and
\* task 1, which the caller owns, went from priority high to urgent.
C20_Witness ==
    /\ last.op = "confirm_ai_action"
    /\ pending.user = last.user
    /\ pending.message = "Change task #1 priority to urgent"
    /\ last.action = "edit_task"
    /\ last.data = pending.data
    /\ last.data["changes"] = [priority |-> "urgent"]
    /\ ~last.result.raised
    /\ last.result.value["success"]
    /\ last.changed = {1}
    /\ tasks[1].owner_id = last.user
    /\ tasks[1].priority = "urgent"

\* the tasks_completed values of a productivity list
Completions(result) == [k \in DOMAIN result |-> result[k].tasks_completed]

\* the user's tasks with status completed and a completed_at
CompletedWithStamp(user_id) ==
    Cardinality({i \in DOMAIN tasks : /\ tasks[i].owner_id = user_id
                                      /\ tasks[i].status = "completed"
                                      /\ tasks[i].completed_at # NULL})

\* C21: get_hourly_productivity returns 24 entries for the hours 0..23 in
\* ascending order, get_weekly_productivity 7 entries for Monday..Sunday, and
\* in each list the tasks_completed values sum to the number of the user's
\* tasks that are completed and have a completed_at.
C21_ProductivityListsComplete ==
    /\ last.op = "get_hourly_productivity"
        => /\ DOMAIN last.result = 1..24
           /\ \A k \in 1..24 : last.result[k].hour = k - 1
           /\ SumSeq(Completions(last.result)) = CompletedWithStamp(last.user)
    /\ last.op = "get_weekly_productivity"
        => /\ DOMAIN last.result = 1..7
           /\ [k \in 1..7 |-> last.result[k].day_of_week]
                = <<"Monday", "Tuesday", "Wednesday", "Thursday", "Friday",
                    "Saturday", "Sunday">>
           /\ SumSeq(Completions(last.result)) = CompletedWithStamp(last.user)

\* The user completed two tasks at different hours of day 9, a Saturday.
C21_Witness ==
    /\ last.op = "get_weekly_productivity"
    /\ last.result[6].tasks_completed = 2
    /\ \E i, j \in DOMAIN tasks : tasks[i].completed_at # tasks[j].completed_at

\* the keywords of a message of KeywordMessages
KeywordsOf(message) ==
    CASE message = "login bug" -> {"login", "bug"}
      [] message = "the login" -> {"login"}
      [] message = "Update the login report" -> {"login", "report"}
      [] message = "deploy" -> {"deploy"}
      [] OTHER -> {}

\* the caller's tasks whose title contains every keyword of the message
\* (no task of these tables has a description)
AllMatching(message, user_id) ==
    {i \in DOMAIN tasks :
        /\ tasks[i].owner_id = user_id
        /\ \A k \in KeywordsOf(message) : Contains(Lower(tasks[i].title), k)}

KeywordSearched ==
    /\ last.op = "_find_task_from_message"
    /\ "page" \in DOMAIN last
    /\ KeywordsOf(last.message) # {}

\* C22: with no explicit id, _find_task_from_message returns the matching
\* task with the latest created_at among all the caller's matching tasks,
\* however many match, that task when one matches and null when none does.
C22_LatestOfAllMatching ==
    KeywordSearched
        => IF AllMatching(last.message, last.user) = {} THEN last.found = NULL
           ELSE /\ last.found \in AllMatching(last.message, last.user)
                /\ \A i \in AllMatching(last.message, last.user) :
                       tasks[i].created_at <= tasks[last.found].created_at

\* the calls of a phase, in order
CallsOf(phase) == SelectSeq(last.calls, LAMBDA c : c.phase = phase)

\* C23: one chat message makes at most one call of the text generation
\* service for classification and at most one for parsing, the latter only
\* when the intent is create_task; no call follows a failed call of its
\* phase, and after a failed call the phase ends with the heuristic fallback.
C23_OneCallPerPhase ==
    last.op = "process_chat_message"
        => /\ Len(CallsOf("classification")) <= 1
           /\ Len(CallsOf("parsing")) <= 1
           /\ Len(CallsOf("parsing")) = 1 => last.intent["action"] = "create_task"
           /\ \A i, j \in 1..Len(last.calls) :
                 i < j /\ last.calls[i].status # "ok"
                    => last.calls[j].phase # last.calls[i].phase
           /\ Len(last.calls) >= 1 /\ last.calls[1].status # "ok"
                 => /\ last.pc # "classify"
                    /\ last.intent = _fallback_classify(last.message)
           /\ Len(last.calls) = 2 /\ last.calls[2].status # "ok"
                 => /\ last.pc = "done"
                    /\ last.result.value["data"] = _fallback_parse(last.message, NOW)

\* Both calls failed: the message was classified create_task and parsed by
\* the fallbacks, with one call made in each phase.
C23_Witness ==
    /\ last.op = "process_chat_message"
    /\ last.pc = "done"
    /\ last.calls = <<[phase |-> "classification", status |-> "timeout"],
                      [phase |-> "parsing", status |-> "http500"]>>
    /\ last.result.value["action"] = "create_task"

\* the statuses in their declared order, each with its keywords
DeclaredStatuses ==
    << <<"todo", {"todo", "to do", "pending"}>>,
       <<"in_progress", {"in progress", "progress", "working", "active"}>>,
       <<"in_review", {"in review", "review", "reviewing"}>>,
       <<"completed", {"completed", "done", "finished", "complete"}>> >>

\* the positions in DeclaredStatuses of the statuses a keyword of which occurs
\* in the message, whatever the case of its letters
Occurring(message) ==
    {n \in 1..4 : \E k \in DeclaredStatuses[n][2] : Contains(Lower(message), k)}

\* C24: _extract_status_from_message returns the first status in the
\* declared order a keyword of which occurs in the message as a
\* case-insensitive substring, and null when no keyword occurs.
C24_FirstDeclaredStatus ==
    last.op = "_extract_status_from_message"
        => IF Occurring(last.message) = {} THEN last.status = "None"
           ELSE \E n \in Occurring(last.message) :
                   /\ \A k \in Occurring(last.message) : n <= k
                   /\ last.status = DeclaredStatuses[n][1]

\* A message with keywords of completed and of in_review, in that order in
\* the text, yields in_review, the status declared earlier.
C24_Witness ==
    /\ last.op = "_extract_status_from_message"
    /\ last.message = "Move it DONE In Review"
    /\ Occurring(last.message) = {3, 4}
    /\ last.status = "in_review"

\* the keyword groups in their fixed order: action, keywords, 10 * confidence
DeclaredGroups ==
    << <<"create_task", {"create", "add", "new task", "make"}, 7>>,
       <<"edit_task", {"edit", "change", "update", "modify"}, 6>>,
       <<"delete_task", {"delete", "remove", "cancel"}, 6>>,
       <<"move_task", {"move", "transfer", "shift"}, 6>>,
       <<"assign_task", {"assign", "give to"}, 6>>,
       <<"query_tasks", {"find", "search", "show", "list"}, 6>>,
       <<"status_request", {"status", "progress", "summary"}, 7>>,
       <<"help", {"help", "what can you do"}, 8>> >>

\* the positions of the groups a keyword of which occurs in the message
GroupsMatching(message) ==
    {n \in 1..8 : \E k \in DeclaredGroups[n][2] : Contains(Lower(message), k)}

\* C25: the fallback classifier returns the action of the first keyword
\* group that matches, in the order create, edit, delete, move, assign,
\* query, status, help, with that group's confidence, and general with
\* confidence 0.5 when no group matches.
C25_FirstMatchingGroup ==
    last.op = "_fallback_classify"
        => /\ DOMAIN last.intent = {"action", "confidence", "data"}
           /\ IF GroupsMatching(last.message) = {}
              THEN last.intent["action"] = "general" /\ last.intent["confidence"] = 5
              ELSE \E n \in GroupsMatching(last.message) :
                      /\ \A k \in GroupsMatching(last.message) : n <= k
                      /\ last.intent["action"] = DeclaredGroups[n][1]
                      /\ last.intent["confidence"] = DeclaredGroups[n][3]

\* A message with a help keyword before "Remove", a delete keyword that
\* contains the move keyword "move", is classified delete_task with
\* confidence 0.6.
C25_Witness ==
    /\ last.op = "_fallback_classify"
    /\ last.message = "Please HELP Remove"
    /\ GroupsMatching(last.message) = {3, 4, 8}
    /\ last.intent["action"] = "delete_task"
    /\ last.intent["confidence"] = 6

\* a is b with some of its elements left out
RECURSIVE IsSubsequence(_, _)
IsSubsequence(a, b) ==
    IF Len(a) = 0 THEN TRUE
    ELSE IF Len(b) = 0 THEN FALSE
    ELSE IF a[1] = b[1] THEN IsSubsequence(Tail(a), Tail(b))
    ELSE IsSubsequence(a, Tail(b))

\* C26: _extract_keywords_from_message returns at most 3 keywords, taken in
\* message order, none of them a stop word and each longer than 2
\* characters.
C26_KeywordsLongAndFew ==
    last.op = "_extract_keywords_from_message"
        => /\ Len(last.keywords) <= 3
           /\ IsSubsequence(last.keywords,
                            [k \in DOMAIN last.words |-> StripPunct(Lower(last.words[k]))])
           /\ \A k \in 1..Len(last.keywords) :
                 /\ last.keywords[k] \notin StopWords
                 /\ Len(last.keywords[k]) > 2

\* the caller's tasks in a column
Column(user_id, column) ==
    {i \in DOMAIN tasks : tasks[i].owner_id = user_id /\ tasks[i].status = column}

DistinctPositions(ids) ==
    \A i, j \in ids : i # j => tasks[i].board_position # tasks[j].board_position

\* every request in flight has committed
AllCommitted ==
    /\ last.op = "move_task"
    /\ \A r \in DOMAIN last.flight : last.flight[r].pc = "committed"

\* C27: after a single move_task request the caller's tasks in the column
\* new_status have pairwise distinct positions and the moved task is at
\* new_position, whatever new_position and the board before.
C27_MoveKeepsPositionsDistinct ==
    AllCommitted /\ Len(last.flight) = 1
        => /\ DistinctPositions(Column(last.user, last.flight[1].new_status))
           /\ tasks[last.flight[1].task_id].status = last.flight[1].new_status
           /\ tasks[last.flight[1].task_id].board_position = last.flight[1].new_position

\* Card 3 was moved to position 0 of the column where cards 1 and 2, which
\* had the same position before, already were.
C27_Witness ==
    /\ AllCommitted
    /\ Len(last.flight) = 1
    /\ last.flight[1].task_id = 3
    /\ last.flight[1].new_position = 0
    /\ last.flight[1].status # last.flight[1].new_status
    /\ DOMAIN last.flight[1].position = {1, 2, 3}
    /\ last.flight[1].position[1] = last.flight[1].position[2]
    /\ Column(last.user, last.flight[1].new_status) = {1, 2, 3}

\* C28: when two move_task requests of one owner into the same column have
\* both made their queries before either commits, the column has pairwise
\* distinct positions once both have committed.
C28_RaceKeepsPositionsDistinct ==
    AllCommitted /\ Len(last.flight) = 2
        => DistinctPositions(Column(last.user, last.flight[1].new_status))

\* the user has a completed task whose completed_at falls on the day
CompletedOn(user_id, day) ==
    \E i \in DOMAIN tasks :
        /\ tasks[i].owner_id = user_id
        /\ tasks[i].status = "completed"
        /\ tasks[i].completed_at # NULL
        /\ tasks[i].completed_at \div 24 = day

\* the number of consecutive days, ending today and going backwards, on each
\* of which the user completed a task
RunOfDays(user_id) ==
    CHOOSE n \in 0..Cardinality(DOMAIN tasks) :
        /\ \A d \in 0..(n - 1) : CompletedOn(user_id, Today - d)
        /\ ~CompletedOn(user_id, Today - n)

StreakReturned == last.op = "_calculate_current_streak" /\ last.pc = "return"

\* C29: _calculate_current_streak terminates and returns the number of
\* consecutive days, ending today and going backwards, on each of which the
\* user has a completed task with completed_at on that day; 0 when none was
\* completed today.
C29_StreakTerminatesWithRun ==
    /\ (last.op = "_calculate_current_streak") ~> StreakReturned
    /\ [](StreakReturned
            => /\ last.streak = RunOfDays(last.user)
               /\ ~CompletedOn(last.user, Today) => last.streak = 0)

\* The user completed a task today and one yesterday: the streak is 2.
C29_Witness ==
    /\ StreakReturned
    /\ last.streak = 2
    /\ CompletedOn(last.user, Today)
    /\ CompletedOn(last.user, Today - 1)

\* the pairs <<id, title>> of the tasks a response names in its data
Named(response) ==
    LET data == Get(response, "data", EmptyDict)
    IN  (IF "task_id" \in DOMAIN data
         THEN {<<data["task_id"], Get(data, "task_title", "None")>>} ELSE {})
        \cup (IF "task_ids" \in DOMAIN data
              THEN {<<data["task_ids"][j], "None">> : j \in DOMAIN data["task_ids"]}
              ELSE {})
        \cup (IF "tasks" \in DOMAIN data
              THEN {<<data["tasks"][j].id, data["tasks"][j].title>> :
                      j \in DOMAIN data["tasks"]}
              ELSE {})

ProcessedOnBoth == last.op = "process_chat_message on two stores"

\* C30: on two stores that agree on the caller's tasks, the same message and
\* the same replies give identical responses, and every task a response
\* names by id or title is a task of the caller.
C30_OthersTasksDoNotShow ==
    ProcessedOnBoth
        => /\ last.first = last.second
           /\ ~last.first.raised
                => \A n \in Named(last.first.value) :
                      /\ n[1] \in DOMAIN tasks
                      /\ tasks[n[1]].owner_id = last.user
                      /\ n[2] \in {"None", tasks[n[1]].title}

\* The caller owns task 1 and asked to delete task 2, which the other user
\* owns in one store and which does not exist in the other: both answers are
\* the same error.
C30_Witness ==
    /\ ProcessedOnBoth
    /\ last.message = "Delete task #2"
    /\ DOMAIN tasks = {1, 2}
    /\ tasks[2].owner_id # last.user
    /\ DOMAIN last.other = {1}
    /\ last.first = last.second
    /\ last.first.value["action"] = "error"

====
